---- MODULE Spec2Model ----
(***************************************************************************)
(* A model of the enactment controller WF of WfExS-backend                 *)
(* (src/wfexs_backend/workflow.py): the marshalled records of one raw      *)
(* working directory, the in-memory state of the instance opened on it,    *)
(* and the marshall / unmarshall pipeline that moves state between them.   *)
(*                                                                         *)
(* Python values are modelled as follows.                                  *)
(*   Optional[X]        a sequence: << >> is None, << x >> is the value x  *)
(*   a marshalling flag a record [tag, t]: None, False or a timestamp      *)
(*   a file             a record [kind, ctime, data]; kind "absent" is a   *)
(*                      file that does not exist, "ok" a completely        *)
(*                      written one, the other kinds what an interrupted   *)
(*                      write leaves behind                                *)
(* Every method is an operator from a world (memory, disk, outcome of the  *)
(* call so far) to a world, so that nested calls compose as in the code.   *)
(***************************************************************************)
EXTENDS Integers, Sequences, FiniteSets, TLC

\* mem: the instance of the owner of the working directory; other: an
\* instance that a second caller holds on the same directory; disk: the
\* marshalled records of the directory; wd: its working tree, the mount of
\* it and what each instance holds of the mount
VARIABLES mem, other, disk, wd

vars == <<mem, other, disk, wd>>

----------------------------------------------------------------------------
(* Bounds of the model *)

\* export-state.yaml holds at most this many materialized export actions
MaxExports == 2

----------------------------------------------------------------------------
(* Values *)

None == << >>
Some(x) == << x >>
IsNone(o) == o = << >>
Val(o) == o[1]

\* Optional[Union[bool, datetime.datetime]]
StNone == [tag |-> "None", t |-> 0]
StFalse == [tag |-> "False", t |-> 0]
Ts(n) == [tag |-> "ts", t |-> n]
IsTimestamp(s) == s.tag = "ts"
\* Python truth value of a marshalling flag: None and False are falsy
Truthy(s) == s.tag = "ts"
StIsNone(s) == s.tag = "None"

\* The return value of a method that is not a marshalling flag
RetExit(v) == [tag |-> "exit", t |-> v]

FileNames == {"config", "stage", "execute", "export"}

\* What an interrupted write may leave: the file not yet opened ("missing"),
\* opened and truncated ("empty"), cut in the middle of a token ("garbled"),
\* or cut at a line boundary, parsable but without its required keys
PartialKinds(f) ==
    IF f = "config" THEN {"missing", "empty", "garbled", "nokeys"}
    ELSE {"missing", "empty", "garbled"}

\* A value of a YAML document: a mapping or a sequence of items, or no value
\* under the key
YamlDict(items) == [type |-> "dict", items |-> items]
YamlList(items) == [type |-> "list", items |-> items]
YamlNone == [type |-> "none", items |-> << >>]
\* isinstance(v, dict) and list(v.values()), None otherwise
FromYamlDict(v) == IF v.type = "dict" THEN Some(v.items) ELSE None

\* The security contexts that an input may name ('security-context') and
\* the secrets that a credentials table may hold under a name
ContextNames == {"ctx"}
Secrets == {"s1", "s2"}
\* creds_config: what the table holds under each name (dict.get)
CredsTables == [ContextNames -> {None} \cup {Some(s) : s \in Secrets}]
NoCreds == [c \in ContextNames |-> None]

ConfigBlank == [paranoid_mode |-> FALSE, outputs |-> YamlNone, default_actions |-> YamlNone,
                params |-> [security_context |-> None]]
StageBlank == [repoURL |-> None, engineDesc |-> None,
               materializedEngine |-> None, materializedParams |-> None]
ExecuteBlank == [exitVal |-> None, augmentedInputs |-> None, matCheckOutputs |-> None]
ExportBlank == None

Blank(f) ==
    CASE f = "config" -> ConfigBlank
      [] f = "stage" -> StageBlank
      [] f = "execute" -> ExecuteBlank
      [] OTHER -> ExportBlank

AbsentFile(f) == [kind |-> "absent", ctime |-> 0, data |-> Blank(f)]

\* os.path.exists / os.path.isfile
Exists(file) == file.kind # "absent"

\* The staging definitions an instance may be created from
\* (outputs, default_actions, paranoid_mode, params and creds_config of
\* WF.__init__; params: the security context that the input of the workflow
\* names)
ConfigChoices ==
    { [paranoid_mode |-> TRUE, outputs |-> <<"o1">>, default_actions |-> <<"a1">>,
       params |-> [security_context |-> None], creds_config |-> NoCreds] }

\* What the workflow resolver and the engine adapter hand back
RepoValue == "repo"
EngineDescValue == "engineDesc"

\* What a run of the engine may hand back (exit value, augmented inputs,
\* resolved outputs)
EngineResults ==
    { [exitVal |-> 0, augmentedInputs |-> "inputs0", matCheckOutputs |-> "outputs0"],
      [exitVal |-> 1, augmentedInputs |-> "inputs1", matCheckOutputs |-> "outputs1"] }
ExportActionIds == {"a1", "a2", "a3"}
\* The item that an export action is about (ExportAction.what): an input
\* of the workflow for a1 and a2, an output of it for a3
ExportWhat(a) == IF a = "a3" THEN "Output" ELSE "Param"

----------------------------------------------------------------------------
(* The in-memory state of an instance (the attributes set by WF.__init__) *)

NoInstance ==
    [ live |-> FALSE,
      metaDir |-> FALSE,
      is_damaged |-> FALSE,
      hasConfig |-> FALSE,
      paranoidMode |-> FALSE,
      outputs |-> None,
      default_actions |-> None,
      params |-> [security_context |-> None],
      \* None: the attribute is not set
      creds_config |-> None,
      configMarshalled |-> StNone,
      stageMarshalled |-> StNone,
      executionMarshalled |-> StNone,
      exportMarshalled |-> StNone,
      repoURL |-> None,
      engineDesc |-> None,
      engine |-> None,
      materializedEngine |-> None,
      materializedParams |-> None,
      exitVal |-> None,
      augmentedInputs |-> None,
      matCheckOutputs |-> None,
      runExportActions |-> None ]

\* What an instance holds of the working tree: doUnmount, encWorkDir and
\* encfsCond (whether they are set), StagedSetup.is_encrypted, the lock of
\* the condition, the
\* position of the liveness thread and the position of WF.unmountWorkdir
NoMount ==
    [ doUnmount |-> FALSE, encWorkDir |-> FALSE, encfsCond |-> FALSE,
      is_encrypted |-> FALSE,
      lock |-> "free", thread |-> "none", pc |-> "idle" ]

\* The callers: 1 is the owner (mem), 2 the second caller (other)
Instances == {1, 2}

\* passphrase: the passphrase file exists; mounted: os.path.ismount(workDir);
\* orphaned: the records were written in the raw directory, and the
\* encrypted tree that was set up over it afterwards does not hold them
NoWorkdir ==
    [ passphrase |-> FALSE, mounted |-> FALSE, orphaned |-> FALSE, inst |-> [i \in Instances |-> NoMount] ]

EmptyDisk ==
    [ rawWorkDir |-> FALSE,
      metaDir |-> FALSE,
      config |-> AbsentFile("config"),
      stage |-> AbsentFile("stage"),
      execute |-> AbsentFile("execute"),
      export |-> AbsentFile("export") ]

----------------------------------------------------------------------------
(* Worlds: the state a call runs in, threaded through nested calls *)

\* halt: "no" while the call is running, "raised" once an exception
\* propagates, "killed" once the process was interrupted, "bound" when the
\* call would exceed a bound of the model.
\* kill: the file write at which the process is interrupted, if any.
Start(m, d, killAt, killKind) ==
    [ mem |-> m, disk |-> d, halt |-> "no", ret |-> StNone,
      engine |-> FALSE, mat |-> << >>,
      killAt |-> killAt, killKind |-> killKind ]

Running(w) == w.halt = "no"
Raise(w) == IF Running(w) THEN [w EXCEPT !.halt = "raised"] ELSE w
Return(w, v) == IF Running(w) THEN [w EXCEPT !.ret = v] ELSE w

\* open(filename, mode="w") followed by yaml.dump: the file is replaced as a
\* whole and its ctime advances.  An interrupted write leaves a partial file.
WriteFile(w, f, data) ==
    IF ~Running(w) THEN w
    ELSE IF ~w.disk.metaDir THEN Raise(w)
    ELSE IF w.killAt = f /\ w.killKind = "missing" THEN [w EXCEPT !.halt = "killed"]
    ELSE IF w.killAt = f THEN
        [w EXCEPT !.halt = "killed",
                  !.disk[f] = [kind |-> w.killKind, ctime |-> w.disk[f].ctime + 1,
                               data |-> Blank(f)]]
    ELSE [w EXCEPT !.disk[f] = [kind |-> "ok", ctime |-> w.disk[f].ctime + 1,
                                data |-> data]]

\* open(filename, mode="w") of a file whose content is never produced
\* because building it raises: the file is left truncated
TruncateFile(w, f) ==
    IF ~Running(w) THEN w
    ELSE IF ~w.disk.metaDir THEN Raise(w)
    ELSE Raise([w EXCEPT !.disk[f] = [kind |-> "empty", ctime |-> w.disk[f].ctime + 1,
                                      data |-> Blank(f)]])

\* datetime.datetime.fromtimestamp(os.path.getctime(filename))
CTime(w, f) == Ts(w.disk[f].ctime)

\* The program compares the timestamps of a file only with each other, so a
\* state is kept up to the renumbering of each file's timestamps that
\* preserves their order: the ctime of the file and the timestamps that the
\* instances remember of it become their ranks among themselves.  Within one
\* call the timestamps are plain counters, so that the outcome of a call can
\* be compared with the state it started from.
FlagTime(s) == IF s.tag = "ts" THEN s.t ELSE 0
FileTime(file) == IF file.kind = "absent" THEN 0 ELSE file.ctime
\* the rank of the time v among v and the times x and y (0: no such time)
Rank(v, x, y) ==
    1 + (IF 0 < x /\ x < v THEN 1 ELSE 0)
      + (IF 0 < y /\ y < v /\ y # x THEN 1 ELSE 0)
NormalFlag(s, x, y) == IF s.tag = "ts" THEN Ts(Rank(s.t, x, y)) ELSE s
NormalFile(file, x, y) ==
    IF file.kind = "absent" THEN file ELSE [file EXCEPT !.ctime = Rank(@, x, y)]
\* the instance m, next to the instance o and the disk d
NormalMem(m, o, d) ==
    IF ~m.live THEN m
    ELSE
    [m EXCEPT
       !.configMarshalled = NormalFlag(@, FlagTime(o.configMarshalled), FileTime(d.config)),
       !.stageMarshalled = NormalFlag(@, FlagTime(o.stageMarshalled), FileTime(d.stage)),
       !.executionMarshalled =
           NormalFlag(@, FlagTime(o.executionMarshalled), FileTime(d.execute)),
       !.exportMarshalled = NormalFlag(@, FlagTime(o.exportMarshalled), FileTime(d.export))]
NormalDisk(m, o, d) ==
    [d EXCEPT
       !.config = NormalFile(@, FlagTime(m.configMarshalled), FlagTime(o.configMarshalled)),
       !.stage = NormalFile(@, FlagTime(m.stageMarshalled), FlagTime(o.stageMarshalled)),
       !.execute =
           NormalFile(@, FlagTime(m.executionMarshalled), FlagTime(o.executionMarshalled)),
       !.export = NormalFile(@, FlagTime(m.exportMarshalled), FlagTime(o.exportMarshalled))]

----------------------------------------------------------------------------
(* Configuration record *)

\* The attribute that holds the marshalling flag of a file
FlagOf(f) ==
    CASE f = "config" -> "configMarshalled"
      [] f = "stage" -> "stageMarshalled"
      [] f = "execute" -> "executionMarshalled"
      [] OTHER -> "exportMarshalled"

\* self.<flag> = ctime of the file, which the method then returns
Stamp(w, f) ==
    IF ~Running(w) THEN w
    ELSE [w EXCEPT !.mem[FlagOf(f)] = CTime(w, f), !.ret = CTime(w, f)]

\* WF.marshallConfig
marshallConfig(w, overwrite) ==
    IF ~Running(w) THEN w
    ELSE IF ~w.mem.metaDir THEN Raise(w)
    ELSE IF overwrite \/ StIsNone(w.mem.configMarshalled) THEN
        IF overwrite \/ ~Exists(w.disk.config) \/ w.disk.config.kind = "empty" THEN
            \* the file is opened for writing, then the record is built from
            \* self.id and the other attributes of the staging definition
            IF ~w.mem.hasConfig THEN TruncateFile(w, "config")
            ELSE Stamp(WriteFile(w, "config",
                           [paranoid_mode |-> w.mem.paranoidMode,
                            \* {output.name: output for output in self.outputs}
                            outputs |-> IF IsNone(w.mem.outputs) THEN YamlNone
                                        ELSE YamlDict(Val(w.mem.outputs)),
                            \* self.default_actions, as it is
                            default_actions |->
                                IF IsNone(w.mem.default_actions) THEN YamlNone
                                ELSE YamlList(Val(w.mem.default_actions)),
                            \* the credentials are not written
                            params |-> w.mem.params]),
                       "config")
        ELSE Stamp(w, "config")
    ELSE Return(w, w.mem.configMarshalled)

\* WF.unmarshallConfig
unmarshallConfig(w, fail_ok) ==
    IF ~Running(w) THEN w
    ELSE IF ~w.mem.metaDir THEN Raise(w)
    ELSE IF ~StIsNone(w.mem.configMarshalled) THEN Return(w, w.mem.configMarshalled)
    ELSE CASE w.disk.config.kind \in {"absent", "empty"} -> Return(w, StFalse)
           [] w.disk.config.kind = "garbled" ->
                IF ~fail_ok THEN Raise(w) ELSE Return(w, w.mem.configMarshalled)
           [] w.disk.config.kind = "nokeys" ->
                IF ~fail_ok THEN Raise(w) ELSE Stamp(w, "config")
           [] OTHER ->
                Stamp([w EXCEPT !.mem.hasConfig = TRUE,
                                !.mem.paranoidMode = w.disk.config.data.paranoid_mode,
                                !.mem.outputs = FromYamlDict(w.disk.config.data.outputs),
                                !.mem.default_actions =
                                    FromYamlDict(w.disk.config.data.default_actions),
                                !.mem.params = w.disk.config.data.params,
                                \* self.creds_config = dict()
                                !.mem.creds_config = Some(NoCreds)],
                      "config")

----------------------------------------------------------------------------
(* Staging: the in-memory steps *)

\* WF.fetchWorkflow.  ok: whether the resolver, the repository fetch and the
\* engine identification succeed
fetchWorkflow(w, ok) ==
    IF ~Running(w) THEN w
    ELSE IF ~w.mem.hasConfig \/ ~w.mem.metaDir \/ ~ok THEN Raise(w)
    ELSE [w EXCEPT !.mem.repoURL = Some(RepoValue),
                   !.mem.engineDesc = Some(EngineDescValue),
                   !.mem.engine = Some("engine")]

\* The rest of WF.setupEngine once self.engine was looked for
materializeEngine(w, ok) ==
    IF ~Running(w) THEN w
    ELSE IF IsNone(w.mem.engine) \/ ~ok THEN Raise(w)
    ELSE [w EXCEPT !.mem.materializedEngine =
             Some([containers |->
                     IF IsNone(w.mem.materializedEngine) THEN None
                     ELSE Val(w.mem.materializedEngine).containers])]

\* WF.setupEngine
setupEngine(w, ok) ==
    IF ~Running(w) THEN w
    ELSE IF IsNone(w.mem.engine) THEN materializeEngine(fetchWorkflow(w, ok), ok)
    ELSE materializeEngine(w, ok)

\* The rest of WF.materializeWorkflow once the engine was set up:
\* WorkflowEngine.MaterializeWorkflowAndContainers
materializeContainers(w, ok) ==
    IF ~Running(w) THEN w
    ELSE IF IsNone(w.mem.materializedEngine) THEN Raise(w)
    ELSE IF ~IsNone(Val(w.mem.materializedEngine).containers) THEN w
    ELSE IF ~w.mem.metaDir \/ ~ok THEN Raise(w)
    ELSE [w EXCEPT !.mem.materializedEngine = Some([containers |-> Some("containers")])]

\* WF.materializeWorkflow
materializeWorkflow(w, ok) ==
    IF ~Running(w) THEN w
    ELSE IF IsNone(w.mem.materializedEngine) THEN materializeContainers(setupEngine(w, ok), ok)
    ELSE materializeContainers(w, ok)

\* WF.buildLicensedURI: the URI of the input, with the security context
\* that contextName selects in the credentials table embedded in it
buildLicensedURI(creds_config, contextName) ==
    [uri |-> "uri",
     secContext |-> IF IsNone(contextName) THEN None
                    ELSE Val(creds_config)[Val(contextName)]]

\* WF.buildLicensedURI raising only when there is no credentials table at
\* all, whatever the table holds
noSecurityContextTable(creds_config, contextName) ==
    ~IsNone(contextName) /\ IsNone(creds_config)

\* WF.buildLicensedURI raises: the credentials table is looked up only for
\* an input that names a security context, and must hold that name
noSecurityContext(creds_config, contextName) ==
    /\ ~IsNone(contextName)
    /\ \/ IsNone(creds_config)
       \/ IsNone(Val(creds_config)[Val(contextName)])

\* WfExS.downloadContent: the materialized content of a licensed URI, which
\* holds the licensed URI it was fetched from (uri, licences, attributions,
\* security context)
downloadContent(licensed_uri) ==
    [local |-> "cached", licensed_uri |-> licensed_uri]

\* WF._fetchRemoteFile: the content is fetched from the licensed URI and
\* linked under the inputs directory, with the licensed URI of the fetch
fetchRemoteFile(creds_config, contextName) ==
    [local |-> "prettyLocal",
     licensed_uri |-> downloadContent(buildLicensedURI(creds_config, contextName)).licensed_uri]

\* WF.fetchInputs: the materialized input of the workflow
fetchInputs(creds_config, params) ==
    [name |-> "input", values |-> <<fetchRemoteFile(creds_config, params.security_context)>>]

\* WF.materializeInputs
materializeInputs(w, ok) ==
    IF ~Running(w) THEN w
    ELSE IF ~w.mem.metaDir \/ ~w.mem.hasConfig \/ ~ok THEN Raise(w)
    ELSE IF noSecurityContext(w.mem.creds_config, w.mem.params.security_context) THEN Raise(w)
    ELSE [w EXCEPT !.mem.materializedParams =
                       Some(fetchInputs(w.mem.creds_config, w.mem.params))]

----------------------------------------------------------------------------
(* Stage record *)

\* The record cannot be used: self.<flag> = False, then the method returns
\* the flag when fail_ok and raises otherwise
Unusable(w, f, fail_ok) ==
    IF fail_ok THEN [w EXCEPT !.mem[FlagOf(f)] = StFalse, !.ret = StFalse]
    ELSE [w EXCEPT !.mem[FlagOf(f)] = StFalse, !.halt = "raised"]

\* WF.marshallStage, from the return of marshallConfig on
writeStage(w, exist_ok, overwrite) ==
    IF ~Running(w) THEN w
    ELSE IF StIsNone(w.ret) THEN Return(w, StNone)
    ELSE IF ~w.mem.metaDir THEN Raise(w)
    ELSE IF Exists(w.disk.stage) /\ ~overwrite THEN
        \* stageAlreadyMarshalled
        IF ~exist_ok THEN Raise(w) ELSE Stamp(w, "stage")
    ELSE IF IsNone(w.mem.materializedEngine) THEN Raise(w)
    ELSE Stamp(WriteFile(w, "stage",
                   [repoURL |-> w.mem.repoURL,
                    engineDesc |-> w.mem.engineDesc,
                    materializedEngine |-> w.mem.materializedEngine,
                    materializedParams |-> w.mem.materializedParams]),
               "stage")

\* WF.marshallStage without the test of self.stageMarshalled: the record is
\* written at every call
marshallStageRewrites(w, exist_ok, overwrite) ==
    IF ~Running(w) THEN w
    ELSE writeStage(marshallConfig(w, overwrite), exist_ok, TRUE)

\* WF.marshallStage
marshallStage(w, exist_ok, overwrite) ==
    IF ~Running(w) THEN w
    ELSE IF overwrite \/ StIsNone(w.mem.stageMarshalled) THEN
        writeStage(marshallConfig(w, overwrite), exist_ok, overwrite)
    ELSE IF ~exist_ok THEN Raise(w)
    ELSE Return(w, w.mem.stageMarshalled)

\* WF.stageWorkDir.  ok: whether the retrievals and materializations succeed
stageWorkDir(w, ok) ==
    marshallStage(
        materializeInputs(
            materializeWorkflow(setupEngine(fetchWorkflow(w, ok), ok), ok), ok),
        TRUE, FALSE)

\* WF.unmarshallStage, from the return of setupEngine(offline=True) on
engineRestored(w, fail_ok) ==
    IF w.halt = "raised" THEN Unusable([w EXCEPT !.halt = "no"], "stage", fail_ok)
    ELSE Stamp(w, "stage")

\* WF.unmarshallStage, from the return of unmarshallConfig on.
\* ok: whether setupEngine(offline=True) succeeds
loadStage(w, fail_ok, ok) ==
    IF ~Running(w) THEN w
    ELSE IF ~Truthy(w.ret) THEN Return(w, StNone)
    ELSE IF w.disk.stage.kind # "ok" THEN
        \* the file does not exist, or yaml.load or the subscripts of the
        \* loaded value raise
        Unusable(w, "stage", fail_ok)
    ELSE engineRestored(
             setupEngine([w EXCEPT !.mem.repoURL = w.disk.stage.data.repoURL,
                                   !.mem.engineDesc = w.disk.stage.data.engineDesc,
                                   !.mem.materializedEngine =
                                       w.disk.stage.data.materializedEngine,
                                   !.mem.materializedParams =
                                       w.disk.stage.data.materializedParams],
                         ok),
             fail_ok)

\* WF.unmarshallStage
unmarshallStage(w, fail_ok, ok) ==
    IF ~Running(w) THEN w
    ELSE IF ~StIsNone(w.mem.stageMarshalled) THEN Return(w, w.mem.stageMarshalled)
    ELSE loadStage(unmarshallConfig(w, fail_ok), fail_ok, ok)

----------------------------------------------------------------------------
(* Execution record *)

\* WF.marshallExecute, from the return of marshallStage on
writeExecute(w, exist_ok, overwrite) ==
    IF ~Running(w) THEN w
    ELSE IF StIsNone(w.ret) THEN Return(w, StNone)
    ELSE IF ~w.mem.metaDir THEN Raise(w)
    ELSE IF Exists(w.disk.execute) /\ ~overwrite THEN
        \* executionAlreadyMarshalled
        IF ~exist_ok THEN Raise(w) ELSE Stamp(w, "execute")
    ELSE Stamp(WriteFile(w, "execute",
                   [exitVal |-> w.mem.exitVal,
                    augmentedInputs |-> w.mem.augmentedInputs,
                    matCheckOutputs |-> w.mem.matCheckOutputs]),
               "execute")

\* WF.marshallExecute
marshallExecute(w, exist_ok, overwrite) ==
    IF ~Running(w) THEN w
    ELSE IF overwrite \/ StIsNone(w.mem.executionMarshalled) THEN
        writeExecute(marshallStage(w, exist_ok, overwrite), exist_ok, overwrite)
    ELSE IF ~exist_ok THEN Raise(w)
    ELSE Return(w, w.mem.executionMarshalled)

\* WF.unmarshallExecute, from the return of unmarshallStage on
loadExecute(w, fail_ok) ==
    IF ~Running(w) THEN w
    ELSE IF ~Truthy(w.ret) THEN Return(w, StNone)
    ELSE IF ~w.mem.metaDir THEN Raise(w)
    ELSE IF w.disk.execute.kind # "ok" THEN
        \* the file does not exist, or loading it raises
        Unusable(w, "execute", fail_ok)
    ELSE Stamp([w EXCEPT !.mem.exitVal = w.disk.execute.data.exitVal,
                         !.mem.augmentedInputs = w.disk.execute.data.augmentedInputs,
                         !.mem.matCheckOutputs = w.disk.execute.data.matCheckOutputs],
               "execute")

\* WF.unmarshallExecute
unmarshallExecute(w, fail_ok, ok) ==
    IF ~Running(w) THEN w
    ELSE IF ~StIsNone(w.mem.executionMarshalled) THEN Return(w, w.mem.executionMarshalled)
    ELSE loadExecute(unmarshallStage(w, fail_ok, ok), fail_ok)

\* WF.executeWorkflow, from the return of unmarshallStage on.
\* result: what the engine run hands back
launchWorkflow(w, result) ==
    IF ~Running(w) THEN w
    ELSE IF IsNone(w.mem.materializedEngine) \/ IsNone(w.mem.materializedParams)
            \/ IsNone(w.mem.outputs) THEN Raise(w)
    ELSE Return(marshallExecute(
                    \* WorkflowEngine.ExecuteWorkflow
                    [w EXCEPT !.engine = TRUE,
                              !.mem.exitVal = Some(result.exitVal),
                              !.mem.augmentedInputs = Some(result.augmentedInputs),
                              !.mem.matCheckOutputs = Some(result.matCheckOutputs)],
                    TRUE, FALSE),
                RetExit(result.exitVal))

\* WF.executeWorkflow.  ok: whether setupEngine(offline=True) succeeds when
\* the stage is unmarshalled
executeWorkflow(w, result, ok) ==
    IF ~Running(w) THEN w
    ELSE launchWorkflow(unmarshallStage(w, FALSE, ok), result)

----------------------------------------------------------------------------
(* Export record *)

\* WF.marshallExport, from the return of marshallStage on
writeExport(w, exist_ok, overwrite) ==
    IF ~Running(w) THEN w
    ELSE IF StIsNone(w.ret) THEN Return(w, StNone)
    ELSE IF ~w.mem.metaDir THEN Raise(w)
    ELSE IF Exists(w.disk.export) /\ ~overwrite THEN
        \* exportAlreadyMarshalled
        IF ~exist_ok THEN Raise(w) ELSE Stamp(w, "export")
    ELSE IF IsNone(w.mem.runExportActions) THEN
        Stamp(WriteFile([w EXCEPT !.mem.runExportActions = Some(<< >>)],
                        "export", Some(<< >>)),
              "export")
    ELSE Stamp(WriteFile(w, "export", w.mem.runExportActions), "export")

\* WF.marshallExport
marshallExport(w, exist_ok, overwrite) ==
    IF ~Running(w) THEN w
    ELSE IF overwrite \/ StIsNone(w.mem.exportMarshalled) THEN
        writeExport(marshallStage(w, exist_ok, overwrite), exist_ok, overwrite)
    ELSE IF ~exist_ok THEN Raise(w)
    ELSE Return(w, w.mem.exportMarshalled)

\* WF.unmarshallExport, from the return of unmarshallStage on
loadExport(w, fail_ok) ==
    IF ~Running(w) THEN w
    ELSE IF ~Truthy(w.ret) THEN Return(w, StNone)
    ELSE IF ~w.mem.metaDir THEN Raise(w)
    ELSE IF w.disk.export.kind \in {"absent", "garbled"} THEN
        \* the file does not exist, or yaml.load raises
        Unusable(w, "export", fail_ok)
    ELSE \* an empty file loads as None
        Stamp([w EXCEPT !.mem.runExportActions = w.disk.export.data], "export")

\* WF.unmarshallExport without the call of unmarshallStage: the record is
\* loaded whatever became of the stage record
unmarshallExportUnguarded(w, fail_ok, ok) ==
    IF ~Running(w) THEN w
    ELSE IF ~StIsNone(w.mem.exportMarshalled) THEN Return(w, w.mem.exportMarshalled)
    ELSE loadExport(Return(w, Ts(1)), fail_ok)

\* WF.unmarshallExport
unmarshallExport(w, fail_ok, ok) ==
    IF ~Running(w) THEN w
    ELSE IF ~StIsNone(w.mem.exportMarshalled) THEN Return(w, w.mem.exportMarshalled)
    ELSE loadExport(unmarshallStage(w, fail_ok, ok), fail_ok)

\* filter of the actions whose push succeeded, in the order of the request
RECURSIVE Materialized(_, _)
Materialized(actions, failing) ==
    IF actions = << >> THEN << >>
    ELSE (IF Head(actions) \in failing THEN << >> ELSE << Head(actions) >>)
         \o Materialized(Tail(actions), failing)

\* WF.exportResults, from the materialized actions on
recordExports(w, matActions) ==
    IF Len(matActions) + (IF IsNone(w.mem.runExportActions) THEN 0
                          ELSE Len(Val(w.mem.runExportActions))) > MaxExports
    THEN [w EXCEPT !.halt = "bound"]
    ELSE Return(marshallExport(
                    [w EXCEPT !.mem.runExportActions =
                                  IF IsNone(@) THEN Some(matActions)
                                  ELSE Some(Val(@) \o matActions),
                              !.mat = matActions],
                    TRUE, Len(matActions) > 0),
                StNone)

\* WF.locateExportItems for the item of the action a: the items that are
\* located without checking what was marshalled
locateExportItemsUnchecked(m, a) == TRUE

\* WF.locateExportItems for the item of the action a, on the instance m:
\* whether the item is located; the method raises otherwise
locateExportItems(m, a) ==
    IF ExportWhat(a) = "Param"
    THEN IsTimestamp(m.stageMarshalled) /\ ~IsNone(m.materializedParams)
    ELSE IsTimestamp(m.executionMarshalled) /\ ~IsNone(m.matCheckOutputs)

\* The actions of actionErrors: those whose items are not located, and
\* those whose credentials, plugin or push fail
ActionErrors(m, filtered_actions, failing) ==
    { filtered_actions[i] : i \in { j \in 1..Len(filtered_actions) :
          \/ ~locateExportItems(m, filtered_actions[j])
          \/ filtered_actions[j] \in failing } }

\* WF.exportResults, from the loop over the actions on
pushActions(w, filtered_actions, errors, fail_ok) ==
    IF errors # {} /\ ~fail_ok
    THEN Raise([w EXCEPT !.mat = Materialized(filtered_actions, errors)])
    ELSE recordExports(w, Materialized(filtered_actions, errors))

\* WF.exportResults, from the return of unmarshallExecute on.
\* actions: the export actions requested, None for the default ones;
\* failing: the actions whose credentials, plugin or push fail
pushExports(w, actions, failing, fail_ok) ==
    IF ~Running(w) THEN w
    ELSE IF IsNone(actions) /\ IsNone(w.mem.default_actions) THEN Return(w, StNone)
    ELSE IF IsNone(actions)
    THEN pushActions(w, Val(w.mem.default_actions),
                     ActionErrors(w.mem, Val(w.mem.default_actions), failing), fail_ok)
    ELSE pushActions(w, Val(actions), ActionErrors(w.mem, Val(actions), failing), fail_ok)

\* WF.exportResults, from the return of unmarshallExport on
exportLoaded(w, actions, failing, fail_ok, ok) ==
    IF ~Running(w) THEN w
    ELSE IF StIsNone(w.ret) THEN Raise(w)
    ELSE pushExports(unmarshallExecute(w, TRUE, ok), actions, failing, fail_ok)

\* WF.exportResults.  ok: whether setupEngine(offline=True) succeeds
exportResults(w, actions, failing, fail_ok, ok) ==
    IF ~Running(w) THEN w
    ELSE exportLoaded(unmarshallExport(w, TRUE, ok), actions, failing, fail_ok, ok)

\* WF.getMarshallingStatus
getMarshallingStatus(w, reread_stats, ok) ==
    IF ~Running(w) THEN w
    ELSE IF ~reread_stats THEN w
    ELSE unmarshallExport(unmarshallExecute(w, TRUE, ok), TRUE, ok)

----------------------------------------------------------------------------
(* Construction *)

\* The attributes that WF.__init__ sets before the working directory is set
\* up.  creating: a new raw working directory is made for the staging
\* definition cfg (FromDescription), otherwise an existing one is opened
\* (FromWorkDir)
NewInstance(w, creating, cfg) ==
    [w EXCEPT !.disk.rawWorkDir = TRUE,
              !.mem = IF creating
                      THEN [NoInstance EXCEPT !.live = TRUE, !.hasConfig = TRUE,
                                              !.paranoidMode = cfg.paranoid_mode,
                                              !.outputs = Some(cfg.outputs),
                                              !.default_actions = Some(cfg.default_actions),
                                              !.params = cfg.params,
                                              !.creds_config = Some(cfg.creds_config)]
                      ELSE [NoInstance EXCEPT !.live = TRUE]]

\* is_damaged = not unmarshalled
configOpened(w) ==
    IF ~Running(w) THEN w ELSE [w EXCEPT !.mem.is_damaged = ~Truthy(w.ret)]

\* WF.__init__ going on after setupWorkdir as if the working tree had been
\* set up, whatever setupWorkdir did
initializeAnyway(w, creating, was_setup, fail_ok) ==
    IF creating THEN
        marshallConfig([w EXCEPT !.mem.metaDir = TRUE, !.disk.metaDir = TRUE], TRUE)
    ELSE IF ~w.disk.metaDir THEN
        IF ~fail_ok THEN Raise([w EXCEPT !.mem.metaDir = TRUE,
                                         !.mem.configMarshalled = StFalse])
        ELSE [w EXCEPT !.mem.metaDir = TRUE, !.mem.configMarshalled = StFalse,
                       !.mem.is_damaged = TRUE]
    ELSE configOpened(unmarshallConfig([w EXCEPT !.mem.metaDir = TRUE], fail_ok))

\* WF.__init__, from the return of setupWorkdir on.  was_setup: that return
initialize(w, creating, was_setup, fail_ok) ==
    IF ~was_setup THEN
        IF ~fail_ok THEN Raise(w)
        ELSE [w EXCEPT !.mem.configMarshalled = StFalse, !.mem.is_damaged = TRUE]
    ELSE IF creating THEN
        \* os.makedirs(self.metaDir); self.marshallConfig(overwrite=True)
        marshallConfig([w EXCEPT !.mem.metaDir = TRUE, !.disk.metaDir = TRUE], TRUE)
    ELSE IF ~w.disk.metaDir THEN
        IF ~fail_ok THEN Raise([w EXCEPT !.mem.metaDir = TRUE,
                                         !.mem.configMarshalled = StFalse])
        ELSE [w EXCEPT !.mem.metaDir = TRUE, !.mem.configMarshalled = StFalse,
                       !.mem.is_damaged = TRUE]
    ELSE configOpened(unmarshallConfig([w EXCEPT !.mem.metaDir = TRUE], fail_ok))

\* WF.__init__
construct(w, creating, cfg, was_setup, fail_ok) ==
    initialize(NewInstance(w, creating, cfg), creating, was_setup, fail_ok)

----------------------------------------------------------------------------
(* Actions: one call of a public method by the owner of the instance *)

World == Start(mem, disk, "none", "none")

\* The next state: the instances m1 of the owner and m2 of the second
\* caller, and the directory d
Both(m1, m2, d) ==
    /\ mem' = NormalMem(m1, m2, d)
    /\ other' = NormalMem(m2, m1, d)
    /\ disk' = NormalDisk(m1, m2, d)

\* The call ends: normally, or by an exception that leaves the instance as
\* the call left it, or by the death of the process
Commit(w) ==
    \E r \in {w} :
      /\ r.halt # "bound"
      /\ Both(IF r.halt = "killed" THEN NoInstance ELSE r.mem, other, r.disk)
      /\ UNCHANGED wd

\* A constructor that raises yields no instance
CommitNew(w) ==
    \E r \in {w} :
      /\ r.halt # "bound"
      /\ Both(IF Running(r) THEN r.mem ELSE NoInstance, other, r.disk)
      /\ UNCHANGED wd

Create ==
    /\ ~mem.live /\ ~disk.rawWorkDir
    /\ \E cfg \in ConfigChoices, was_setup \in BOOLEAN, fail_ok \in BOOLEAN :
         CommitNew(construct(World, TRUE, cfg, was_setup, fail_ok))

ReOpen ==
    /\ ~mem.live /\ disk.rawWorkDir
    /\ \E was_setup \in BOOLEAN, fail_ok \in BOOLEAN :
         CommitNew(construct(World, FALSE, ConfigBlank, was_setup, fail_ok))

\* WF.cleanup, after which the instance is dropped
Cleanup ==
    /\ mem.live
    /\ Both(NoInstance, other, disk)
    /\ UNCHANGED wd

GetMarshallingStatus ==
    /\ mem.live
    /\ \E reread_stats \in BOOLEAN, ok \in BOOLEAN :
         Commit(getMarshallingStatus(World, reread_stats, ok))

FetchWorkflow ==
    /\ mem.live
    /\ \E ok \in BOOLEAN : Commit(fetchWorkflow(World, ok))

SetupEngine ==
    /\ mem.live
    /\ \E ok \in BOOLEAN : Commit(setupEngine(World, ok))

MaterializeWorkflow ==
    /\ mem.live
    /\ \E ok \in BOOLEAN :
         Commit(materializeWorkflow(World, ok))

MaterializeInputs ==
    /\ mem.live
    /\ \E ok \in BOOLEAN :
         Commit(materializeInputs(World, ok))

StageWorkDir ==
    /\ mem.live
    /\ \E ok \in BOOLEAN : Commit(stageWorkDir(World, ok))

MarshallConfig ==
    /\ mem.live
    /\ \E overwrite \in BOOLEAN :
         Commit(marshallConfig(World, overwrite))

UnmarshallConfig ==
    /\ mem.live
    /\ \E fail_ok \in BOOLEAN :
         Commit(unmarshallConfig(World, fail_ok))

MarshallStage ==
    /\ mem.live
    /\ \E exist_ok \in BOOLEAN, overwrite \in BOOLEAN :
         Commit(marshallStage(World, exist_ok, overwrite))

UnmarshallStage ==
    /\ mem.live
    /\ \E fail_ok \in BOOLEAN, ok \in BOOLEAN :
         Commit(unmarshallStage(World, fail_ok, ok))

MarshallExecute ==
    /\ mem.live
    /\ \E exist_ok \in BOOLEAN, overwrite \in BOOLEAN :
         Commit(marshallExecute(World, exist_ok, overwrite))

UnmarshallExecute ==
    /\ mem.live
    /\ \E fail_ok \in BOOLEAN, ok \in BOOLEAN :
         Commit(unmarshallExecute(World, fail_ok, ok))

MarshallExport ==
    /\ mem.live
    /\ \E exist_ok \in BOOLEAN, overwrite \in BOOLEAN :
         Commit(marshallExport(World, exist_ok, overwrite))

UnmarshallExport ==
    /\ mem.live
    /\ \E fail_ok \in BOOLEAN, ok \in BOOLEAN :
         Commit(unmarshallExport(World, fail_ok, ok))

ExecuteWorkflow ==
    /\ mem.live
    /\ \E result \in EngineResults, ok \in BOOLEAN :
         Commit(executeWorkflow(World, result, ok))

\* The requests of an export by the owner: the default actions, or a given
\* one
ExportRequests == {None, Some(<<"a1">>)}

\* The actions that fail in an export: none, or all of them
ExportFailures == {{}, ExportActionIds}

ExportResults ==
    /\ mem.live
    /\ \E actions \in ExportRequests, failing \in ExportFailures,
          fail_ok \in BOOLEAN, ok \in BOOLEAN :
         Commit(exportResults(World, actions, failing, fail_ok, ok))

Init ==
    /\ mem = NoInstance
    /\ other = NoInstance
    /\ disk = EmptyDisk
    /\ wd = NoWorkdir

Next ==
    \/ Create
    \/ ReOpen
    \/ Cleanup
    \/ GetMarshallingStatus
    \/ FetchWorkflow
    \/ SetupEngine
    \/ MaterializeWorkflow
    \/ MaterializeInputs
    \/ StageWorkDir
    \/ MarshallConfig
    \/ UnmarshallConfig
    \/ MarshallStage
    \/ UnmarshallStage
    \/ MarshallExecute
    \/ UnmarshallExecute
    \/ MarshallExport
    \/ UnmarshallExport
    \/ ExecuteWorkflow
    \/ ExportResults

Spec == Init /\ [][Next]_vars

----------------------------------------------------------------------------
(* Interruptions.  The process dies inside a call, at one of its file       *)
(* writes: before the file is opened (the file stays as it was), or after   *)
(* it was opened and before its content was complete.  The instance is      *)
(* gone with the process, the directory stays.                              *)

\* The call w ends by the death of the process
Interrupted(w) == w.halt = "killed" /\ Commit(w)

InterruptedCreate ==
    /\ ~mem.live /\ ~disk.rawWorkDir
    /\ \E cfg \in ConfigChoices, kind \in PartialKinds("config") :
         Interrupted(construct(Start(mem, disk, "config", kind), TRUE, cfg, TRUE, FALSE))

InterruptedStage ==
    /\ mem.live
    /\ \E f \in FileNames : \E kind \in PartialKinds(f) :
         Interrupted(stageWorkDir(Start(mem, disk, f, kind), TRUE))

InterruptedExecuteWorkflow ==
    /\ mem.live
    /\ \E f \in FileNames, result \in EngineResults : \E kind \in PartialKinds(f) :
         Interrupted(executeWorkflow(Start(mem, disk, f, kind), result, TRUE))

InterruptedExportResults ==
    /\ mem.live
    /\ \E f \in FileNames, actions \in ExportRequests : \E kind \in PartialKinds(f) :
         Interrupted(exportResults(Start(mem, disk, f, kind), actions, {}, FALSE, TRUE))

NextCrash ==
    \/ Create
    \/ ReOpen
    \/ Cleanup
    \/ GetMarshallingStatus
    \/ StageWorkDir
    \/ ExecuteWorkflow
    \/ ExportResults
    \/ InterruptedCreate
    \/ InterruptedStage
    \/ InterruptedExecuteWorkflow
    \/ InterruptedExportResults

SpecCrash == Init /\ [][NextCrash]_vars

----------------------------------------------------------------------------
(* The working tree.  WF.__init__ sets it up with WF.setupWorkdir and       *)
(* WF.cleanup tears it down with WF.unmountWorkdir.  An encrypted tree is   *)
(* a FUSE mount that a daemon thread (_wakeupEncDir) keeps alive; the       *)
(* thread and the instance share a threading.Condition.  Two callers open   *)
(* instances on the one directory.                                          *)

Instance(i) == IF i = 1 THEN mem ELSE other

\* The next state: the instance of caller i is m, the directory is d
Holds(i, m, d) == IF i = 1 THEN Both(m, other, d) ELSE Both(mem, m, d)

\* The staging definitions of WF.__init__, in paranoid mode or not
WorkdirConfigs ==
    { [cfg EXCEPT !.paranoid_mode = p] : cfg \in ConfigChoices, p \in BOOLEAN }

\* WfExS.generateSecuredPassphrase: a passphrase is generated and stored in
\* the passphrase file of the raw directory
generateSecuredPassphrase(v) == [v EXCEPT !.passphrase = TRUE]

\* The passphrase of WF.setupWorkdir: read from the passphrase file when it
\* exists, generated otherwise
securedPassphrase(v) == IF v.passphrase THEN v ELSE generateSecuredPassphrase(v)

\* self.secure of WF.__init__.  checkSecure: the raw directory was given;
\* passphraseFile: os.path.exists(passphraseFile); secure: the value under
\* "secure" in the workflow configuration
isSecureFromConfig(checkSecure, passphraseFile, secure) == secure
isSecure(checkSecure, passphraseFile, secure) ==
    IF checkSecure THEN passphraseFile ELSE secure

\* WF.setupWorkdir on the working tree v, by the constructor of the instance
\* of caller i.  mountOk: whether the FUSE mount command succeeds.  The
\* result is the working tree and the value returned; the call raises when
\* the mount fails and fail_ok is not set, which WF.__init__ lets through.
setupWorkdir(v, i, doSecureWorkDir, mountOk, fail_ok) ==
    IF ~doSecureWorkDir THEN
        [wd |-> [v EXCEPT !.inst[i] = NoMount], was_setup |-> TRUE]
    ELSE IF v.mounted THEN
        \* "Destination mount point {} is already in use": a warning
        [wd |-> [securedPassphrase(v) EXCEPT
                          !.inst[i] = [NoMount EXCEPT !.encWorkDir = TRUE,
                                                      !.is_encrypted = TRUE]],
         was_setup |-> TRUE]
    ELSE IF ~mountOk THEN
        [wd |-> [securedPassphrase(v) EXCEPT
                          !.inst[i] = IF fail_ok
                                      THEN [NoMount EXCEPT !.doUnmount = TRUE,
                                                           !.encWorkDir = TRUE,
                                                           !.is_encrypted = TRUE]
                                      ELSE NoMount],
         was_setup |-> FALSE]
    ELSE
        \* the mount succeeded: the condition is created and the thread
        \* started
        [wd |-> [securedPassphrase(v) EXCEPT
                          !.mounted = TRUE,
                          !.inst[i] = [doUnmount |-> TRUE, encWorkDir |-> TRUE,
                                       encfsCond |-> TRUE, is_encrypted |-> TRUE,
                                       lock |-> "free",
                                       thread |-> "start", pc |-> "idle"]],
         was_setup |-> TRUE]

\* WF.__init__ by caller i: WF.setupWorkdir, then the configuration, read
\* in the working tree that was set up
Opening(i, s, creating, cfg, fail_ok) ==
    \E r \in {construct(Start(Instance(i),
                              IF s.wd.orphaned THEN [disk EXCEPT !.metaDir = FALSE] ELSE disk,
                              "none", "none"),
                        creating, cfg, s.was_setup, fail_ok)} :
      /\ wd' = s.wd
      /\ Holds(i, IF Running(r) THEN r.mem ELSE NoInstance,
                  IF s.wd.orphaned THEN disk ELSE r.disk)

\* WF.FromDescription: doSecureWorkDir = self.secure or self.paranoidMode,
\* with self.secure from the workflow configuration
WorkdirCreate ==
    /\ ~mem.live /\ ~disk.rawWorkDir
    /\ wd.inst[1].pc = "idle"
    /\ \E cfg \in WorkdirConfigs, secure \in BOOLEAN,
          mountOk \in BOOLEAN, fail_ok \in BOOLEAN :
         Opening(1, setupWorkdir(wd, 1,
                                 isSecure(FALSE, wd.passphrase, secure) \/ cfg.paranoid_mode,
                                 mountOk, fail_ok),
                 TRUE, cfg, fail_ok)

\* The working tree when the constructor is about to set up an encrypted
\* tree in an existing raw directory that has no passphrase file: the
\* records of the raw directory are not in the tree
Orphaning(v, doSecureWorkDir) ==
    [v EXCEPT !.orphaned = @ \/ (doSecureWorkDir /\ ~v.passphrase)]

\* WF.FromWorkDir: self.secure = os.path.exists(passphraseFile), and
\* self.paranoidMode = self.wfexs.getDefaultParanoidMode().  Nothing
\* in WF.__init__ or WF.setupWorkdir looks for another instance.
WorkdirReOpen(i) ==
    /\ ~Instance(i).live /\ disk.rawWorkDir
    /\ wd.inst[i].pc = "idle"
    /\ \E paranoidMode \in BOOLEAN, mountOk \in BOOLEAN, fail_ok \in BOOLEAN :
         \E doSecureWorkDir \in {isSecure(TRUE, wd.passphrase, FALSE) \/ paranoidMode} :
           Opening(i, setupWorkdir(Orphaning(wd, doSecureWorkDir), i, doSecureWorkDir,
                                   mountOk, fail_ok),
                   FALSE, ConfigBlank, fail_ok)

\* WF.cleanup of an instance that has no mount of its own: WF.unmountWorkdir
\* does nothing, and the instance is dropped
CleanupUnmounted(i) ==
    /\ Instance(i).live
    /\ wd.inst[i].pc = "idle"
    /\ ~(wd.inst[i].doUnmount /\ wd.inst[i].encWorkDir)
    /\ Holds(i, NoInstance, disk)
    /\ UNCHANGED wd

\* WF.unmountWorkdir, up to the test of os.path.ismount: the condition is
\* acquired, which waits for its lock, and notified, which wakes the thread
\* if it is waiting; the lock is not released
UnmountSignal(i) ==
    /\ Instance(i).live
    /\ wd.inst[i].pc = "idle"
    /\ wd.inst[i].doUnmount /\ wd.inst[i].encWorkDir
    /\ wd.inst[i].encfsCond => wd.inst[i].lock = "free"
    /\ wd' = [wd EXCEPT !.inst[i] =
                 IF @.encfsCond
                 THEN [@ EXCEPT !.lock = "main",
                                !.thread = IF @ = "waiting" THEN "notified" ELSE @,
                                !.encfsCond = FALSE,
                                !.pc = "unmount"]
                 ELSE [@ EXCEPT !.pc = "unmount"]]
    /\ UNCHANGED <<mem, other, disk>>

\* WF.unmountWorkdir, from the test of os.path.ismount on: fusermount -u -z
\* when the tree is mounted; the call raises when the command fails, and
\* otherwise the instance forgets the tree and is dropped
Fusermount(i) ==
    /\ wd.inst[i].pc = "unmount"
    /\ \E retval \in {0, 1} :
         IF wd.mounted /\ retval # 0
         THEN /\ wd' = [wd EXCEPT !.inst[i].pc = "idle"]
              /\ UNCHANGED <<mem, other, disk>>
         ELSE /\ wd' = [wd EXCEPT !.mounted = FALSE,
                                  !.inst[i].doUnmount = FALSE,
                                  !.inst[i].encWorkDir = FALSE,
                                  !.inst[i].is_encrypted = FALSE,
                                  !.inst[i].pc = "idle"]
              /\ Holds(i, NoInstance, disk)

\* _wakeupEncDir: cond.acquire()
ThreadAcquire(i) ==
    /\ wd.inst[i].thread = "start"
    /\ wd.inst[i].lock = "free"
    /\ wd' = [wd EXCEPT !.inst[i].lock = "thread", !.inst[i].thread = "held"]
    /\ UNCHANGED <<mem, other, disk>>

\* cond.wait(60) releases the lock and waits
ThreadWait(i) ==
    /\ wd.inst[i].thread = "held"
    /\ wd' = [wd EXCEPT !.inst[i].lock = "free", !.inst[i].thread = "waiting"]
    /\ UNCHANGED <<mem, other, disk>>

\* the 60 seconds pass without a notification
ThreadTimeout(i) ==
    /\ wd.inst[i].thread = "waiting"
    /\ wd' = [wd EXCEPT !.inst[i].thread = "timeout"]
    /\ UNCHANGED <<mem, other, disk>>

\* cond.wait(60) returns once it holds the lock again: False after the
\* timeout, and the loop goes on; True after a notification, and the thread
\* leaves the loop, releases the lock and ends
ThreadReacquire(i) ==
    /\ wd.inst[i].thread \in {"timeout", "notified"}
    /\ wd.inst[i].lock = "free"
    /\ wd' = [wd EXCEPT !.inst[i] =
                 IF @.thread = "timeout"
                 THEN [@ EXCEPT !.lock = "thread", !.thread = "checking"]
                 ELSE [@ EXCEPT !.thread = "exited"]]
    /\ UNCHANGED <<mem, other, disk>>

\* os.path.isdir(workDir), then the next round of the loop
ThreadCheck(i) ==
    /\ wd.inst[i].thread = "checking"
    /\ wd' = [wd EXCEPT !.inst[i].thread = "held"]
    /\ UNCHANGED <<mem, other, disk>>

NextWorkdir ==
    \/ WorkdirCreate
    \/ \E i \in Instances : WorkdirReOpen(i)
    \/ \E i \in Instances : CleanupUnmounted(i)
    \/ \E i \in Instances : UnmountSignal(i)
    \/ \E i \in Instances : Fusermount(i)
    \/ \E i \in Instances : ThreadAcquire(i)
    \/ \E i \in Instances : ThreadWait(i)
    \/ \E i \in Instances : ThreadTimeout(i)
    \/ \E i \in Instances : ThreadReacquire(i)
    \/ \E i \in Instances : ThreadCheck(i)

SpecWorkdir == Init /\ [][NextWorkdir]_vars

----------------------------------------------------------------------------
(* Two callers that export results of the one directory: the owner creates  *)
(* and stages it, the second caller opens it meanwhile.                     *)

\* The requests of an export by the second caller
OtherExportRequests == {Some(<<"a2">>)}

\* WF.exportResults by the second caller
OtherExportResults ==
    /\ other.live
    /\ wd.inst[2].pc = "idle"
    /\ \E actions \in OtherExportRequests, failing \in ExportFailures,
          fail_ok \in BOOLEAN, ok \in BOOLEAN :
         \E r \in {exportResults(Start(other, disk, "none", "none"),
                                 actions, failing, fail_ok, ok)} :
           /\ r.halt # "bound"
           /\ Holds(2, r.mem, r.disk)
           /\ UNCHANGED wd

NextShared ==
    \/ Create
    \/ ReOpen
    \/ Cleanup
    \/ StageWorkDir
    \/ ExportResults
    \/ WorkdirReOpen(2)
    \/ CleanupUnmounted(2)
    \/ OtherExportResults

SpecShared == Init /\ [][NextShared]_vars

----------------------------------------------------------------------------
(* Properties of the marshalling pipeline *)

\* C1: whatever calls were made on an instance, a stage flag that is a
\* timestamp implies a configuration flag that is a timestamp, and an
\* execution or export flag that is a timestamp implies a stage flag that is
\* a timestamp.
C1_StatusChain ==
    mem.live =>
        /\ IsTimestamp(mem.stageMarshalled) => IsTimestamp(mem.configMarshalled)
        /\ IsTimestamp(mem.executionMarshalled) => IsTimestamp(mem.stageMarshalled)
        /\ IsTimestamp(mem.exportMarshalled) => IsTimestamp(mem.stageMarshalled)

\* C2: in every state an instance can be brought to, executeWorkflow called
\* while stage-state.yaml does not exist fails, without launching the engine
\* and without writing execution-state.yaml.
C2_ExecuteNeedsStage ==
    (mem.live /\ ~Exists(disk.stage)) =>
        \A result \in EngineResults, ok \in BOOLEAN :
            LET r == executeWorkflow(World, result, ok) IN
                /\ r.halt = "raised"
                /\ ~r.engine
                /\ r.disk.execute = disk.execute

\* The in-memory state of each lifecycle stage
ConfigState(m) ==
    [paranoidMode |-> m.paranoidMode, outputs |-> m.outputs,
     default_actions |-> m.default_actions]
StageState(m) ==
    [repoURL |-> m.repoURL, engineDesc |-> m.engineDesc,
     materializedEngine |-> m.materializedEngine,
     materializedParams |-> m.materializedParams]
ExecuteState(m) ==
    [exitVal |-> m.exitVal, augmentedInputs |-> m.augmentedInputs,
     matCheckOutputs |-> m.matCheckOutputs]
ExportState(m) == m.runExportActions

\* A fresh instance opened on the working directory d (WF.FromWorkDir), in a
\* call whose working directory can be set up
Fresh(d) == construct(Start(NoInstance, d, "none", "none"), FALSE, ConfigBlank, TRUE, FALSE)

\* C3: whenever marshall(S) returns a timestamp, a fresh instance opened on
\* the same working directory that runs unmarshall(S) holds the state of
\* stage S that the first instance holds, for S the configuration, the
\* stage, the execution and the export.
C3_RoundTrip ==
    mem.live =>
        \A exist_ok \in BOOLEAN, overwrite \in BOOLEAN :
            /\ LET r == marshallConfig(World, overwrite)
                   u == unmarshallConfig(Fresh(r.disk), FALSE)
               IN (Running(r) /\ IsTimestamp(r.ret)) =>
                      (Running(u) /\ ConfigState(u.mem) = ConfigState(r.mem))
            /\ LET r == marshallStage(World, exist_ok, overwrite)
                   u == unmarshallStage(Fresh(r.disk), FALSE, TRUE)
               IN (Running(r) /\ IsTimestamp(r.ret)) =>
                      (Running(u) /\ StageState(u.mem) = StageState(r.mem))
            /\ LET r == marshallExecute(World, exist_ok, overwrite)
                   u == unmarshallExecute(Fresh(r.disk), FALSE, TRUE)
               IN (Running(r) /\ IsTimestamp(r.ret)) =>
                      (Running(u) /\ ExecuteState(u.mem) = ExecuteState(r.mem))
            /\ LET r == marshallExport(World, exist_ok, overwrite)
                   u == unmarshallExport(Fresh(r.disk), FALSE, TRUE)
               IN (Running(r) /\ IsTimestamp(r.ret)) =>
                      (Running(u) /\ ExportState(u.mem) = ExportState(r.mem))

\* The materialized export actions that export-state.yaml records
Recorded(d) ==
    IF d.export.kind = "ok" /\ ~IsNone(d.export.data) THEN Val(d.export.data) ELSE << >>

\* What marshall(S) without overwrite must be on an instance for which
\* marshall(S) has succeeded: a call that returns, changes no file of the
\* directory and returns the timestamp that the instance holds for S
NoOp(r, f) == Running(r) /\ r.disk = disk /\ r.ret = mem[FlagOf(f)]

ExecutionOf(result) ==
    [exitVal |-> Some(result.exitVal),
     augmentedInputs |-> Some(result.augmentedInputs),
     matCheckOutputs |-> Some(result.matCheckOutputs)]

\* C5: in every state an instance can be brought to, an executeWorkflow that
\* returns does return the exit value of the engine run of that call, and
\* execution-state.yaml then records the exit value, the augmented inputs
\* and the outputs of that run.
C5_ExecutionRecorded ==
    mem.live =>
        \A result \in EngineResults, ok \in BOOLEAN :
            LET r == executeWorkflow(World, result, ok) IN
                Running(r) =>
                    /\ r.ret = RetExit(result.exitVal)
                    /\ r.disk.execute.kind = "ok"
                    /\ r.disk.execute.data = ExecutionOf(result)

IsPrefix(p, q) == Len(p) <= Len(q) /\ SubSeq(q, 1, Len(p)) = p

IsSuffix(p, q) == Len(p) <= Len(q) /\ SubSeq(q, Len(q) - Len(p) + 1, Len(q)) = p

\* C6: in every state, whatever exportResults is called with, the actions
\* that export-state.yaml recorded before the call are still recorded after
\* it, in the same order and at the head of the record, and when the call
\* returns the actions that it materialized are at the end of the record,
\* after the earlier ones.
C6_ExportAppendOnly ==
    mem.live =>
        \A actions \in ExportRequests, failing \in ExportFailures,
           fail_ok \in BOOLEAN, ok \in BOOLEAN :
            LET r == exportResults(World, actions, failing, fail_ok, ok) IN
                /\ r.halt # "bound" => IsPrefix(Recorded(disk), Recorded(r.disk))
                /\ Running(r) =>
                        /\ IsSuffix(r.mat, Recorded(r.disk))
                        /\ Len(Recorded(disk)) + Len(r.mat) <= Len(Recorded(r.disk))

\* WF.FromWorkDir on the directory d, which no instance holds
Opened(d, fail_ok) ==
    construct(Start(NoInstance, d, "none", "none"), FALSE, ConfigBlank, TRUE, fail_ok)

\* C7: whenever the directory holds a workflow_meta.yaml that cannot be
\* unmarshalled (missing, empty, unparsable, or parsable but invalid),
\* re-opening it with fail_ok=false raises, and re-opening it with
\* fail_ok=true returns an instance that is flagged is_damaged and whose
\* config marshalling status is not a timestamp.
C7_ConfigFailureOnReOpen ==
    (~mem.live /\ disk.rawWorkDir /\ disk.metaDir /\ disk.config.kind # "ok") =>
        /\ Opened(disk, FALSE).halt = "raised"
        /\ \E r \in {Opened(disk, TRUE)} :
             /\ Running(r)
             /\ r.mem.is_damaged
             /\ ~IsTimestamp(r.mem.configMarshalled)

\* The call ended with a stage flagged as marshalled at a timestamp while
\* the record of that stage is not a completely written one
AcceptsPartial(r) ==
    \E f \in {"stage", "execute", "export"} :
        IsTimestamp(r.mem[FlagOf(f)]) /\ r.disk[f].kind # "ok"

\* C8: whatever the interruptions of staging, execution and export left in
\* the directory, on the instance that re-opens it no unmarshall* call and
\* no marshall* call without overwrite ends with a stage flagged as
\* marshalled whose record is partially written.
C8_NoPartialRecordAccepted ==
    (~mem.live /\ disk.rawWorkDir) =>
        \A w \in {Start(Opened(disk, TRUE).mem, disk, "none", "none")} :
            /\ \A fail_ok \in BOOLEAN, ok \in BOOLEAN :
                 /\ ~AcceptsPartial(unmarshallStage(w, fail_ok, ok))
                 /\ ~AcceptsPartial(unmarshallExecute(w, fail_ok, ok))
                 /\ ~AcceptsPartial(unmarshallExport(w, fail_ok, ok))
            /\ ~AcceptsPartial(marshallStage(w, TRUE, FALSE))
            /\ ~AcceptsPartial(marshallExecute(w, TRUE, FALSE))
            /\ ~AcceptsPartial(marshallExport(w, TRUE, FALSE))

\* C9: whenever unmountWorkdir of an instance that mounted the encrypted
\* tree and started the liveness thread goes on from its signal to the
\* unmount command while the tree is mounted, the liveness thread of the
\* instance has exited.
C9_ThreadExitedBeforeUnmount ==
    [][\A i \in Instances :
         ( /\ wd.inst[i].pc = "unmount"
           /\ wd'.inst[i].pc # "unmount"
           /\ wd.mounted
           /\ wd.inst[i].thread # "none" )
         => wd.inst[i].thread = "exited"]_vars

\* C10: the owner and the second caller never both hold a live instance on
\* the directory.
C10_SingleLiveInstance == ~(mem.live /\ other.live)

----------------------------------------------------------------------------
(* Retrievals of staging.  Each step of staging hands its offline argument  *)
(* to the calls that may retrieve something; a retrieval is the call and    *)
(* the offline argument it was given, FALSE when the call is given none.    *)

Retrieval(what, offline) == [what |-> what, offline |-> offline]

\* What self.id and self.trs_endpoint may name: a git repository ("git"), a
\* RO-Crate ("rocrate"), a workflow of WorkflowHub ("workflowhub"), a TRS
\* tool whose entry point gives away its repository ("trs-repo"), a TRS
\* tool used from its raw files ("trs-files")
WorkflowIds == {"git", "rocrate", "workflowhub", "trs-repo", "trs-files"}

\* WF.getWorkflowRepoFromROCrateURL
getWorkflowRepoFromROCrateURLRetrievals(offline) ==
    << Retrieval("RO-Crate", offline) >>

\* WF.getWorkflowRepoFromTRS: the metadata of the endpoint, the tool, then
\* the RO-Crate of a WorkflowHub workflow or the files of the tool
getWorkflowRepoFromTRSRetrievals(id, offline) ==
    << Retrieval("TRS metadata", offline), Retrieval("TRS tool", offline) >>
    \o (IF id = "workflowhub" THEN getWorkflowRepoFromROCrateURLRetrievals(offline)
        ELSE << Retrieval("TRS files", offline) >>)

\* self.wfexs.doMaterializeRepo(repoURL, repoTag)
doMaterializeRepoRetrievals ==
    << Retrieval("repository", FALSE) >>

\* WF.fetchWorkflow: the workflow is identified, then its repository is
\* materialized when repoURL is an URL
fetchWorkflowRetrievals(id, offline) ==
    (CASE id = "git" -> << >>
       [] id = "rocrate" -> getWorkflowRepoFromROCrateURLRetrievals(offline)
       [] OTHER -> getWorkflowRepoFromTRSRetrievals(id, offline))
    \o (IF id = "trs-files" THEN << >> ELSE doMaterializeRepoRetrievals)

\* WF.setupEngine on the instance m: self.engine.materializeEngine(
\* localWorkflow, self.engineVer) makes sure that the version of the engine
\* is there
setupEngineRetrievals(m, id, offline) ==
    (IF IsNone(m.engine) THEN fetchWorkflowRetrievals(id, offline) ELSE << >>)
    \o << Retrieval("engine", FALSE) >>

\* WF.materializeWorkflow on the instance m:
\* WorkflowEngine.MaterializeWorkflowAndContainers
materializeWorkflowRetrievals(m, id, offline) ==
    IF IsNone(m.materializedEngine)
    THEN setupEngineRetrievals(m, id, offline)
         \o << Retrieval("workflow", offline), Retrieval("containers", offline) >>
    ELSE IF IsNone(Val(m.materializedEngine).containers)
    THEN << Retrieval("workflow", offline), Retrieval("containers", offline) >>
    ELSE << >>

\* WF.materializeInputs: WF.fetchInputs hands offline to every
\* WF._fetchRemoteFile, of the primary and of the secondary URLs
materializeInputsRetrievals(offline) ==
    << Retrieval("inputs", offline), Retrieval("secondary inputs", offline) >>

\* fetchWorkflow, setupEngine, materializeWorkflow and materializeInputs
\* called in this order on the instance m, each with the same offline
stagingRetrievals(m, id, offline) ==
    fetchWorkflowRetrievals(id, offline)
    \o setupEngineRetrievals(fetchWorkflow(Start(m, EmptyDisk, "none", "none"), TRUE).mem,
                             id, offline)
    \o materializeWorkflowRetrievals(
           setupEngine(fetchWorkflow(Start(m, EmptyDisk, "none", "none"), TRUE), TRUE).mem,
           id, offline)
    \o materializeInputsRetrievals(offline)

\* WF.FromDescription of a staging definition in paranoid mode or not
CreateStaging ==
    /\ ~mem.live /\ ~disk.rawWorkDir
    /\ \E cfg \in WorkdirConfigs, was_setup \in BOOLEAN, fail_ok \in BOOLEAN :
         CommitNew(construct(World, TRUE, cfg, was_setup, fail_ok))

NextStaging ==
    \/ CreateStaging
    \/ ReOpen
    \/ Cleanup
    \/ FetchWorkflow
    \/ SetupEngine
    \/ MaterializeWorkflow
    \/ MaterializeInputs
    \/ StageWorkDir
    \/ UnmarshallStage
    \/ ExecuteWorkflow

SpecStaging == Init /\ [][NextStaging]_vars

\* C11: on an instance that is not in paranoid mode and whose stage was
\* marshalled, whatever the workflow is identified by, every retrieval of
\* fetchWorkflow, setupEngine, materializeWorkflow and materializeInputs
\* called with offline=true is given offline=true.
C11_OfflineStaging ==
    (mem.live /\ ~mem.paranoidMode /\ IsTimestamp(mem.stageMarshalled)) =>
        \A id \in WorkflowIds :
            \A i \in DOMAIN stagingRetrievals(mem, id, TRUE) :
                stagingRetrievals(mem, id, TRUE)[i].offline

\* What stage-state.yaml records of the workflow and of its engine
RecordedWorkflow(d) == [repoURL |-> d.stage.data.repoURL, engineDesc |-> d.stage.data.engineDesc]

\* What the instance holds of the workflow and of its engine
HeldWorkflow(m) == [repoURL |-> m.repoURL, engineDesc |-> m.engineDesc]

\* C12: on every instance opened on a directory whose stage-state.yaml is a
\* complete record, an unmarshallStage that returns a timestamp leaves the
\* instance with an engine adapter (self.engine is not None) and with the
\* repoURL and the engineDesc that the record holds.
C12_EngineRestored ==
    (mem.live /\ disk.stage.kind = "ok") =>
        \A fail_ok \in BOOLEAN, ok \in BOOLEAN :
            \E u \in {unmarshallStage(World, fail_ok, ok)} :
                (Running(u) /\ IsTimestamp(u.ret)) =>
                    /\ ~IsNone(u.mem.engine)
                    /\ HeldWorkflow(u.mem) = RecordedWorkflow(disk)

\* The call that ended in u loaded the record f: the instance holds a
\* timestamp for f that it did not hold before the call
Loaded(u, f) == IsTimestamp(u.mem[FlagOf(f)]) /\ ~IsTimestamp(mem[FlagOf(f)])

\* The record f is there for the call that ended in u: the file exists and
\* the instance holds a timestamp for it
PresentAndLoaded(u, f) == Exists(disk[f]) /\ IsTimestamp(u.mem[FlagOf(f)])

\* C13: on every instance, unmarshallStage loads the stage record only if
\* workflow_meta.yaml is present and loaded, unmarshallExecute loads the
\* execution record only if workflow_meta.yaml and stage-state.yaml are, and
\* unmarshallExport loads the export record only if workflow_meta.yaml,
\* stage-state.yaml and execution-state.yaml are.
C13_LoadedInOrder ==
    mem.live =>
        \A fail_ok \in BOOLEAN, ok \in BOOLEAN :
            /\ \E u \in {unmarshallStage(World, fail_ok, ok)} :
                 Loaded(u, "stage") => PresentAndLoaded(u, "config")
            /\ \E u \in {unmarshallExecute(World, fail_ok, ok)} :
                 Loaded(u, "execute") =>
                     PresentAndLoaded(u, "config") /\ PresentAndLoaded(u, "stage")
            /\ \E u \in {unmarshallExport(World, fail_ok, ok)} :
                 Loaded(u, "export") =>
                     /\ PresentAndLoaded(u, "config")
                     /\ PresentAndLoaded(u, "stage")
                     /\ PresentAndLoaded(u, "execute")

\* C13, amended: unmarshallStage loads the stage record only if
\* workflow_meta.yaml is present and loaded, and unmarshallExecute and
\* unmarshallExport load their records only if workflow_meta.yaml and
\* stage-state.yaml are; the export record does not wait for
\* execution-state.yaml.
C13_LoadedAfterStage ==
    mem.live =>
        \A fail_ok \in BOOLEAN, ok \in BOOLEAN :
            /\ \E u \in {unmarshallStage(World, fail_ok, ok)} :
                 Loaded(u, "stage") => PresentAndLoaded(u, "config")
            /\ \E u \in {unmarshallExecute(World, fail_ok, ok)} :
                 Loaded(u, "execute") =>
                     PresentAndLoaded(u, "config") /\ PresentAndLoaded(u, "stage")
            /\ \E u \in {unmarshallExport(World, fail_ok, ok)} :
                 Loaded(u, "export") =>
                     PresentAndLoaded(u, "config") /\ PresentAndLoaded(u, "stage")

\* A re-opened instance that has loaded its configuration only, on a
\* directory that holds the four records: unmarshallExecute and
\* unmarshallExport load theirs
C13_Witness ==
    /\ mem.live
    /\ StIsNone(mem.stageMarshalled)
    /\ disk.execute.kind = "ok" /\ disk.export.kind = "ok"
    /\ Loaded(unmarshallExecute(World, FALSE, TRUE), "execute")
    /\ Loaded(unmarshallExport(World, FALSE, TRUE), "export")

----------------------------------------------------------------------------
(* Exports of the inputs and of the outputs of the workflow *)

\* The requests of an export of an input, of an output, or of both
ItemExportRequests == {Some(<<"a1">>), Some(<<"a3">>), Some(<<"a1", "a3">>)}

\* WF.exportResults of given actions
ExportItems ==
    /\ mem.live
    /\ \E actions \in ItemExportRequests, failing \in ExportFailures,
          fail_ok \in BOOLEAN, ok \in BOOLEAN :
         Commit(exportResults(World, actions, failing, fail_ok, ok))

NextExport ==
    \/ Create
    \/ ReOpen
    \/ Cleanup
    \/ GetMarshallingStatus
    \/ MaterializeInputs
    \/ StageWorkDir
    \/ MarshallExecute
    \/ ExecuteWorkflow
    \/ ExportItems

SpecExport == Init /\ [][NextExport]_vars

\* The actions whose push succeeded in the call that ended in r
Pushed(r) == { r.mat[i] : i \in DOMAIN r.mat }

\* C14: in every state of an instance, an executeWorkflow launches the
\* engine only on an instance that holds the materialized inputs, the
\* outputs that the instance holds change only in a call that launched the
\* engine, and in an exportResults the push of an output happens only on an
\* instance whose execution status is a timestamp and that holds resolved
\* outputs, the push of an input only on an instance whose stage status is
\* a timestamp.
C14_Ordering ==
    mem.live =>
        /\ \A result \in EngineResults, ok \in BOOLEAN :
             \E r \in {executeWorkflow(World, result, ok)} :
                 /\ r.engine => ~IsNone(r.mem.materializedParams)
                 /\ r.mem.matCheckOutputs # mem.matCheckOutputs => r.engine
        /\ \A actions \in ItemExportRequests, failing \in ExportFailures,
              fail_ok \in BOOLEAN, ok \in BOOLEAN :
             \E r \in {exportResults(World, actions, failing, fail_ok, ok)} :
                 \A a \in Pushed(r) :
                     IF ExportWhat(a) = "Output"
                     THEN /\ IsTimestamp(r.mem.executionMarshalled)
                          /\ ~IsNone(r.mem.matCheckOutputs)
                     ELSE IsTimestamp(r.mem.stageMarshalled)

\* An instance that was staged and has executed the workflow, on which an
\* export pushes an input and an output
C14_Witness ==
    /\ mem.live
    /\ IsTimestamp(mem.stageMarshalled) /\ IsTimestamp(mem.executionMarshalled)
    /\ ~IsNone(mem.exitVal)
    /\ executeWorkflow(World, CHOOSE x \in EngineResults : TRUE, TRUE).engine
    /\ Pushed(exportResults(World, Some(<<"a1", "a3">>), {}, FALSE, TRUE)) = {"a1", "a3"}

----------------------------------------------------------------------------
(* Credentials of the inputs *)

\* The staging definitions whose input names a security context, with the
\* credentials tables that WF.__init__ may be handed next to them
CredsChoices ==
    { [cfg EXCEPT !.params = [security_context |-> Some(n)], !.creds_config = c] :
        cfg \in ConfigChoices, n \in ContextNames, c \in CredsTables }

CreateWithCredentials ==
    /\ ~mem.live /\ ~disk.rawWorkDir
    /\ \E cfg \in CredsChoices, was_setup \in BOOLEAN, fail_ok \in BOOLEAN :
         CommitNew(construct(World, TRUE, cfg, was_setup, fail_ok))

NextCreds ==
    \/ CreateWithCredentials
    \/ ReOpen
    \/ Cleanup
    \/ MaterializeInputs
    \/ StageWorkDir
    \/ MarshallStage
    \/ ExecuteWorkflow
    \/ ExportResults

SpecCreds == Init /\ [][NextCreds]_vars

\* The instance was just created from a staging definition and a credentials
\* table that holds the security context of its input
CreatedWithCredentials ==
    /\ mem.live /\ mem.hasConfig /\ IsTimestamp(mem.configMarshalled)
    /\ ~IsNone(mem.creds_config)
    /\ ~noSecurityContext(mem.creds_config, mem.params.security_context)
    /\ ~Exists(disk.stage) /\ ~Exists(disk.execute) /\ ~Exists(disk.export)
    /\ IsNone(mem.materializedParams)

\* The directory after the run of the instance (staging, execution, export)
\* had it been created with the credentials table c
RunWith(c, result) ==
    exportResults(
        executeWorkflow(stageWorkDir([World EXCEPT !.mem.creds_config = Some(c)], TRUE),
                        result, TRUE),
        None, {}, FALSE, TRUE).disk

\* C15: credentials are never persisted: two runs that differ only in the
\* credentials table leave the same four records (workflow_meta.yaml,
\* stage-state.yaml, execution-state.yaml, export-state.yaml).
C15_CredentialsNotPersisted ==
    CreatedWithCredentials =>
        \A c1, c2 \in CredsTables, result \in EngineResults :
            (/\ ~noSecurityContext(Some(c1), mem.params.security_context)
             /\ ~noSecurityContext(Some(c2), mem.params.security_context))
            => RunWith(c1, result) = RunWith(c2, result)
----------------------------------------------------------------------------
(* Security contexts of the exports *)

\* The keys and the values of a setup block (SecurityContextConfig); a block
\* gives what it holds under each key, None for a key it does not define
SetupKeys == {"server", "token"}
SetupValues == {"v1", "v2"}
SetupBlocks == [SetupKeys -> {None} \cup {Some(v) : v \in SetupValues}]

\* The credentials handed to WF.exportResults: the block under each context
\* name (creds_config.get)
ExportCreds == [ContextNames -> {None} \cup {Some(b) : b \in SetupBlocks}]

\* dict.update: a.update(b)
update(a, b) == [k \in SetupKeys |-> IF IsNone(b[k]) THEN a[k] ELSE b[k]]

\* The check of the security context in WF.exportResults fails
\* (ExportActionException)
missingSetupBlock(context_name, creds_config) ==
    /\ ~IsNone(context_name)
    /\ \/ IsNone(creds_config)
       \/ IsNone(Val(creds_config)[Val(context_name)])

\* The block that WF.exportResults hands to instantiateExportPlugin for an
\* action with the given setup and context_name (a_setup_block)
mergedSetupBlock(setup, context_name, creds_config) ==
    IF IsNone(context_name) THEN setup
    ELSE IF IsNone(setup) THEN Val(creds_config)[Val(context_name)]
    ELSE Some(update(Val(setup), Val(Val(creds_config)[Val(context_name)])))

\* The export plugin of action a is instantiated by WF.exportResults: the
\* items of the action were located and its security context was found
pluginInstantiated(m, a, context_name, creds_config) ==
    /\ m.live
    /\ locateExportItems(m, a)
    /\ ~missingSetupBlock(context_name, creds_config)

\* C16: for an export action with a setup block and a context_name that the
\* credentials hold, the block handed to the export plugin has, under every
\* key defined in both, the value of action.setup, and under a key defined
\* in one of them the value of that one.
C16_ActionSetupWins ==
    \A a \in ExportActionIds, setup \in SetupBlocks, n \in ContextNames, creds \in ExportCreds :
        pluginInstantiated(mem, a, Some(n), Some(creds)) =>
            \E handed \in {mergedSetupBlock(Some(setup), Some(n), Some(creds))} :
                /\ ~IsNone(handed)
                /\ \A k \in SetupKeys :
                      Val(handed)[k] = IF ~IsNone(setup[k]) THEN setup[k]
                                       ELSE Val(creds[n])[k]
----------------------------------------------------------------------------
(* The passphrase file and the mount of the encrypted working tree *)

\* The constructor of caller i returns an instance at this step
Constructed(i) == ~Instance(i).live /\ (IF i = 1 THEN mem' ELSE other').live

\* C17: after the WF constructor returns, the passphrase file of the raw
\* directory exists if and only if the instance uses an encrypted working
\* tree (StagedSetup.is_encrypted), whatever the secure flag, the paranoid
\* mode, the raw directory (new or existing, with or without a passphrase
\* file) and the outcome of the mount.
C17_PassphraseIffEncrypted ==
    [][\A i \in Instances :
          Constructed(i) => (wd'.passphrase <=> wd'.inst[i].is_encrypted)]_vars

\* An instance on an encrypted tree whose mount failed, and next to it the
\* passphrase file
C17_Witness ==
    /\ mem.live /\ wd.inst[1].is_encrypted /\ wd.passphrase
    /\ ~wd.mounted /\ mem.is_damaged

\* The constructor of caller i may be called on the directory: FromDescription
\* by the owner when there is no raw directory, FromWorkDir when there is one
MayConstruct(i, creating) ==
    /\ ~Instance(i).live
    /\ wd.inst[i].pc = "idle"
    /\ IF creating THEN i = 1 /\ ~disk.rawWorkDir ELSE disk.rawWorkDir

\* The records of the directory d
Records(d) == [f \in FileNames |-> d[f]]

----------------------------------------------------------------------------
(* The interval of the liveness thread *)

\* The timeout of cond.wait in _wakeupEncDir, in seconds: the thread looks
\* at the working tree once per timeout
WakeupInterval == 60

\* The idle timeouts of the encrypted filesystem that the mount may be given
\* (self.encfs_idleMinutes), in minutes
MaxIdleMinutes == 3
IdleMinutes == 1..MaxIdleMinutes

\* The liveness thread of the instance of caller i is running
ThreadRunning(i) == wd.inst[i].thread \notin {"none", "exited"}

\* C19: the interval at which the liveness thread touches the mount is at
\* most half the idle timeout of the encrypted filesystem, for every idle
\* timeout of one minute or more.
C19_TouchWithinHalfIdle ==
    \A i \in Instances, idle \in IdleMinutes :
        ThreadRunning(i) => 2 * WakeupInterval <= 60 * idle

----------------------------------------------------------------------------
(* The local paths of the inputs *)

\* A path is a sequence of components below the root or below the directory
\* it is joined to (abs), and a component is a sequence of characters.  The
\* components that a preferred-name, a relative-dir or a parameter key may
\* hold: ".." and the names "a", "i" and "ix"; the inputs directory is /w/i
DotDot == <<".", ".">>
Components == {DotDot, <<"a">>, <<"i">>, <<"i", "x">>}
MaxDepth == 2
RelPaths == UNION {[1..n -> Components] : n \in 1..MaxDepth}
Rel(parts) == [abs |-> FALSE, parts |-> parts]
Abs(parts) == [abs |-> TRUE, parts |-> parts]
inputsDir == Abs(<< <<"w">>, <<"i">> >>)

\* os.path.join(a, b)
join(a, b) == IF b.abs THEN b ELSE [a EXCEPT !.parts = @ \o b.parts]

\* os.path.realpath of a path of a tree without symbolic links: each ".."
\* drops the component before it
RECURSIVE Resolve(_, _)
Resolve(done, parts) ==
    IF parts = << >> THEN done
    ELSE IF Head(parts) = DotDot
         THEN Resolve(IF done = << >> THEN done ELSE SubSeq(done, 1, Len(done) - 1),
                      Tail(parts))
         ELSE Resolve(Append(done, Head(parts)), Tail(parts))
realpath(p) == Abs(Resolve(<< >>, p.parts))

\* os.path.basename
basename(p) == IF p.parts = << >> THEN Rel(<< >>) ELSE Rel(<< p.parts[Len(p.parts)] >>)

\* The string of an absolute path: "/" and the characters of each component
RECURSIVE PathString(_)
PathString(parts) ==
    IF parts = << >> THEN << >>
    ELSE <<"/">> \o Head(parts) \o PathString(Tail(parts))

\* str.startswith on the strings of two paths
startswith(p, q) ==
    \E s \in {PathString(p.parts)}, t \in {PathString(q.parts)} :
        Len(t) <= Len(s) /\ SubSeq(s, 1, Len(t)) = t

\* WF.fetchInputs: the directory that the input is linked in, from the
\* relative-dir of its spec (None: no relative directory)
inputDestDir(workflowInputs_destdir, relative_dir) ==
    IF IsNone(relative_dir) THEN workflowInputs_destdir
    ELSE IF startswith(realpath(join(workflowInputs_destdir, Val(relative_dir))),
                       realpath(workflowInputs_destdir))
         THEN realpath(join(workflowInputs_destdir, Val(relative_dir)))
         ELSE workflowInputs_destdir

\* WF._fetchRemoteFile: the local path of the fetched content (prettyLocal),
\* which is not hardened unless the name is taken
prettyLocal(destDir, prettyRelname) ==
    IF ~startswith(realpath(join(destDir, prettyRelname)), realpath(destDir))
    THEN join(destDir, basename(realpath(join(destDir, prettyRelname))))
    ELSE join(destDir, prettyRelname)

\* WF.fetchInputs: the local path of a File input without URL, from the
\* tokens of its linear key (inputDestPath)
RECURSIVE joinAll(_, _)
joinAll(dir, tokens) ==
    IF tokens = << >> THEN dir ELSE joinAll(join(dir, Head(tokens)), Tail(tokens))

\* The tokens of a linear key (linearKey.split(".")): a token holds no dot,
\* and may hold slashes
KeyTokens ==
    UNION {[1..n -> {k \in {Rel(r) : r \in RelPaths} \cup {Abs(r) : r \in RelPaths} :
                        \A j \in 1..Len(k.parts) : k.parts[j] # DotDot}] :
             n \in 1..MaxDepth}

\* The path p is the directory d or lies below it
Inside(p, d) ==
    /\ Len(d.parts) <= Len(p.parts)
    /\ SubSeq(p.parts, 1, Len(d.parts)) = d.parts

\* The instance may stage inputs: WF.fetchInputs has an inputs directory
MayFetchInputs(m) == m.live /\ m.metaDir /\ m.hasConfig

\* C20: for every MaterializedContent produced by the input stager, for
\* every preferred-name, relative-dir and parameter key, the real path of
\* its local path lies inside the real path of the inputs directory.
C20_InputsJailed ==
    MayFetchInputs(mem) =>
        /\ \A relative_dir \in {None} \cup {Some(Rel(r)) : r \in RelPaths},
              prettyRelname \in {Rel(r) : r \in RelPaths} :
                Inside(realpath(prettyLocal(inputDestDir(inputsDir, relative_dir),
                                            prettyRelname)),
                       realpath(inputsDir))
        /\ \A tokens \in KeyTokens :
                Inside(realpath(joinAll(inputsDir, tokens)), realpath(inputsDir))

----------------------------------------------------------------------------
(* The names of the inputs in the inputs directory *)

\* The remote URIs of the inputs, and the names they may prefer: a name is
\* a sequence of pieces, so that "3_" before "n" is the name "3_n"
InputURIs == {"u1", "u2", "u3"}
PreferredNames == {<<"n">>, <<"2_", "n">>, <<"3_", "n">>}
MaxInputs == 3
\* The inputs of a staging definition that share one inputs directory, in
\* the order of the definition
InputSpecs == [url : InputURIs, preferred_name : PreferredNames]
StagingInputs == UNION {[1..n -> InputSpecs] : n \in 1..MaxInputs}

\* str(lastInput) + "_"
NumericPrefix(lastInput) ==
    CASE lastInput = 1 -> "1_" [] lastInput = 2 -> "2_" [] lastInput = 3 -> "3_"
      [] OTHER -> "4_"

\* An inputs directory gives, for each name in it, the URI whose content
\* the entry holds and whether the entry is a symbolic link to the fetched
\* content
EmptyDir == [x \in {} |-> [content |-> "u1", islink |-> FALSE]]
\* link_or_copy(matContent.local, prettyLocal)
link_or_copy(dir, url, name, symlink) ==
    [x \in DOMAIN dir \cup {name} |->
        IF x = name THEN [content |-> url, islink |-> symlink] ELSE dir[x]]

\* WF._fetchRemoteFile, from the hardening of the local name on: the local
\* name of the content of url in the directory dir, and the directory
\* afterwards
hardenedName(dir, url, prettyRelname, prefix) ==
    IF prettyRelname \notin DOMAIN dir THEN prettyRelname
    ELSE IF dir[prettyRelname].islink /\ dir[prettyRelname].content = url THEN prettyRelname
    ELSE <<prefix>> \o prettyRelname
linkRemoteFile(dir, url, prettyRelname, prefix, symlink) ==
    \* if not os.path.exists(prettyLocal): link_or_copy(...)
    [local |-> hardenedName(dir, url, prettyRelname, prefix),
     url |-> url,
     dir |-> IF hardenedName(dir, url, prettyRelname, prefix) \in DOMAIN dir THEN dir
             ELSE link_or_copy(dir, url, hardenedName(dir, url, prettyRelname, prefix),
                               symlink)]

\* WF.fetchInputs over the inputs ins from the directory dir: the
\* directory at the end and the materialized contents, in order
RECURSIVE linkInputs(_, _, _, _, _)
linkInputs(dir, done, ins, lastInput, symlink) ==
    IF ins = << >> THEN [dir |-> dir, values |-> done]
    ELSE \* lastInput += 1; prefix=str(lastInput) + "_"
         linkInputs(linkRemoteFile(dir, Head(ins).url, Head(ins).preferred_name,
                                   NumericPrefix(lastInput + 1), symlink).dir,
                    Append(done,
                           linkRemoteFile(dir, Head(ins).url, Head(ins).preferred_name,
                                          NumericPrefix(lastInput + 1), symlink)),
                    Tail(ins), lastInput + 1, symlink)

\* C21: given two inputs with distinct remote URIs but identical
\* preferred-name staged into the same inputs directory, the second one is
\* renamed with a numeric sequence prefix and the two resolve to distinct
\* local paths, each holding the content of its own URI.
C21_NameHardening ==
    MayFetchInputs(mem) =>
        \A ins \in StagingInputs, symlink \in BOOLEAN :
          \E r \in {linkInputs(EmptyDir, << >>, ins, 0, symlink)} :
            \A i, j \in 1..Len(ins) :
                ( /\ i < j
                  /\ ins[i].preferred_name = ins[j].preferred_name
                  /\ ins[i].url # ins[j].url
                  /\ \A k \in 1..(j - 1) :
                        ins[k].preferred_name = ins[j].preferred_name => k = i )
                => /\ r.values[j].local = <<NumericPrefix(j)>> \o ins[j].preferred_name
                   /\ r.values[i].local # r.values[j].local
                   /\ r.dir[r.values[i].local].content = ins[i].url
                   /\ r.dir[r.values[j].local].content = ins[j].url

----------------------------------------------------------------------------
(* The cache of the inputs *)

\* WF.fetchInputs: cacheable, from the paranoid mode of the instance and
\* the "cache" key of the input (True when it is not given)
cacheableWhenAsked(paranoidMode, cache) == cache
cacheable(paranoidMode, cache) == IF cache THEN ~paranoidMode ELSE FALSE

\* The call of downloadContent by WF._fetchRemoteFile: dest=storeDir,
\* ignoreCache=not cacheable, registerInCache=cacheable
downloadCall(paranoidMode, cache) ==
    [dest |-> IF cacheable(paranoidMode, cache) THEN "CacheType.Input" ELSE "inputsDir",
     ignoreCache |-> ~cacheable(paranoidMode, cache),
     registerInCache |-> cacheable(paranoidMode, cache)]

\* WfExS.downloadContent: where the content that is then linked or copied
\* into the inputs directory is stored (matContent.local)
contentStore(call) == IF call.dest = "CacheType.Input" THEN "cache" ELSE "inputs"

\* C22: an input is fetched through the shared cache (destination
\* CacheType.Input, cache not ignored, result registered) exactly when its
\* spec has cache=true and the instance is not in paranoid mode; otherwise
\* the download bypasses the cache and goes to the inputs directory, and the
\* staged input is not a link into the shared cache.
C22_CacheDiscipline ==
    MayFetchInputs(mem) =>
        \A cache \in BOOLEAN :
          \E call \in {downloadCall(mem.paranoidMode, cache)} :
            IF cache /\ ~mem.paranoidMode
            THEN call = [dest |-> "CacheType.Input", ignoreCache |-> FALSE,
                         registerInCache |-> TRUE]
            ELSE /\ call = [dest |-> "inputsDir", ignoreCache |-> TRUE,
                            registerInCache |-> FALSE]
                 /\ contentStore(call) # "cache"

\* A paranoid instance that has staged its inputs
C22_Witness ==
    mem.live /\ mem.paranoidMode /\ ~IsNone(mem.materializedParams)

----------------------------------------------------------------------------
(* Inputs whose security context is missing *)

\* WF._fetchRemoteFile: the licensed URIs that are handed to
\* downloadContent, which is called once buildLicensedURI has returned
downloadsAttempted(creds_config, contextName) ==
    IF noSecurityContext(creds_config, contextName) THEN << >>
    ELSE <<buildLicensedURI(creds_config, contextName)>>

\* The input of the instance names a security context that its credentials
\* table does not hold
MissingEntry(m) ==
    /\ m.live /\ m.metaDir /\ m.hasConfig
    /\ ~IsNone(m.params.security_context)
    /\ \/ IsNone(m.creds_config)
       \/ IsNone(Val(m.creds_config)[Val(m.params.security_context)])

\* C23: when an input names a security context that has no entry in the
\* credentials table of the instance, the staging of the inputs fails
\* before any download of that input is attempted; so it is for every such
\* input of a re-opened instance, whose table is empty.
C23_MissingContextIsFatal ==
    MissingEntry(mem) =>
        \E r \in {materializeInputs(World, TRUE)} :
            /\ r.halt = "raised"
            /\ r.mem.materializedParams = mem.materializedParams
            /\ downloadsAttempted(mem.creds_config, mem.params.security_context) = << >>

\* An instance whose input names a security context and whose table is
\* empty, as the table of a re-opened instance is
C23_Witness ==
    /\ MissingEntry(mem)
    /\ mem.creds_config = Some(NoCreds)
    /\ IsTimestamp(mem.configMarshalled)

----------------------------------------------------------------------------
(* Inputs filled from the outputs directory *)

outputsDir == Abs(<< <<"w">>, <<"o">> >>)

\* WF.fetchInputs for a File or a Directory with autoFill: the values of the
\* materialized input that is recorded, without any fetch.  For a File the
\* list path_tokens itself is handed to os.path.join, which takes strings
\* and raises TypeError
autoFill(inputClass, autoPrefix, path_tokens) ==
    IF inputClass = "Directory"
    THEN [raised |-> FALSE,
          values |-> <<IF autoPrefix THEN joinAll(outputsDir, path_tokens) ELSE outputsDir>>]
    ELSE [raised |-> TRUE, values |-> << >>]

\* C24: a File or Directory parameter with autoFill=true is recorded as a
\* materialized input and never fetched: a Directory with autoPrefix=true
\* at linear key k gets the value outputs/<components of k>, and a File at
\* linear key k gets the value outputs/<components of k>.
C24_AutoFill ==
    MayFetchInputs(mem) =>
        \A inputClass \in {"File", "Directory"},
           path_tokens \in {t \in KeyTokens : \A j \in 1..Len(t) : ~t[j].abs} :
          \E r \in {autoFill(inputClass, TRUE, path_tokens)} :
              /\ ~r.raised
              /\ r.values = <<joinAll(outputsDir, path_tokens)>>

----------------------------------------------------------------------------
(* Placeholders *)

\* The strings of the parameters: sequences of the braces, of the letter
\* "a", of "x", the name of the one configured placeholder, and of "y", the
\* name of no placeholder.  The value of x is the letter "v"
StringChars == {"a", "{", "}", "x", "y"}
MaxLen == 4
ParamStrings == UNION {[1..n -> StringChars] : n \in 0..MaxLen}
placeholders == [n \in {<<"x">>} |-> <<"v">>]

\* str.find: the index of the first c in s, counted from 1, and 0 if none
RECURSIVE find(_, _, _)
find(s, c, from) ==
    IF from > Len(s) THEN 0
    ELSE IF s[from] = c THEN from ELSE find(s, c, from + 1)

\* str.format(**self.placeholders) from position i on, out being what was
\* formatted so far: "{{" and "}}" stand for one brace, "{" opens a field
\* that goes up to the next "}", and the name of the field is looked up in
\* the placeholders.  ok is FALSE when format raises (a brace on its own,
\* a field without name, a name that is no placeholder)
RECURSIVE format(_, _, _)
format(s, i, out) ==
    IF i > Len(s) THEN [ok |-> TRUE, out |-> out]
    ELSE IF s[i] = "{" THEN
        IF i < Len(s) /\ s[i + 1] = "{" THEN format(s, i + 2, Append(out, "{"))
        ELSE IF find(s, "}", i + 1) = 0 THEN [ok |-> FALSE, out |-> s]
        ELSE IF SubSeq(s, i + 1, find(s, "}", i + 1) - 1) \in DOMAIN placeholders
             THEN format(s, find(s, "}", i + 1) + 1,
                         out \o placeholders[SubSeq(s, i + 1, find(s, "}", i + 1) - 1)])
             ELSE [ok |-> FALSE, out |-> s]
    ELSE IF s[i] = "}" THEN
        IF i < Len(s) /\ s[i + 1] = "}" THEN format(s, i + 2, Append(out, "}"))
        ELSE [ok |-> FALSE, out |-> s]
    ELSE format(s, i + 1, Append(out, s[i]))

\* WF._formatStringFromPlaceHolders tries to format the string: it holds a
\* "{" and a "}", the first "{" before the first "}"
triesFormat(the_string) ==
    /\ find(the_string, "{", 1) # 0
    /\ find(the_string, "}", 1) # 0
    /\ find(the_string, "{", 1) < find(the_string, "}", 1)

\* WF._formatStringFromPlaceHolders: the string returned, and whether the
\* warning is logged
formatStringFromPlaceHolders(the_string) ==
    IF ~triesFormat(the_string) THEN [out |-> the_string, warned |-> FALSE]
    ELSE IF format(the_string, 1, << >>).ok
         THEN [out |-> format(the_string, 1, << >>).out, warned |-> FALSE]
         ELSE [out |-> the_string, warned |-> TRUE]

\* A {name} token of the string s starts at i: a "{", a name of one or more
\* characters that are no braces, and a "}".  TokenEnd is the index of that "}"
RECURSIVE NameEnd(_, _)
NameEnd(s, j) ==
    IF j > Len(s) \/ s[j] \in {"{", "}"} THEN j ELSE NameEnd(s, j + 1)
IsToken(s, i) ==
    /\ s[i] = "{"
    /\ NameEnd(s, i + 1) > i + 1
    /\ NameEnd(s, i + 1) <= Len(s)
    /\ s[NameEnd(s, i + 1)] = "}"
TokenName(s, i) == SubSeq(s, i + 1, NameEnd(s, i + 1) - 1)

\* The string s from i on with every {name} token replaced by the value of
\* the placeholder name
RECURSIVE Substituted(_, _)
Substituted(s, i) ==
    IF i > Len(s) THEN << >>
    ELSE IF IsToken(s, i)
         THEN placeholders[TokenName(s, i)] \o Substituted(s, NameEnd(s, i + 1) + 1)
         ELSE <<s[i]>> \o Substituted(s, i + 1)

\* C25: every {name} token of a parameter string is replaced by the value
\* of the placeholder when all the tokens of the string are defined; a
\* string with an unresolvable placeholder is used unchanged, with a
\* warning, and the staging does not fail.
C25_Placeholders ==
    (mem.live /\ mem.hasConfig) =>
        \A s \in ParamStrings :
          \E r \in {formatStringFromPlaceHolders(s)} :
            IF \A i \in 1..Len(s) : IsToken(s, i) => TokenName(s, i) \in DOMAIN placeholders
            THEN r.out = Substituted(s, 1)
            ELSE r.out = s /\ r.warned

----------------------------------------------------------------------------
(* Resolution through TRS *)

\* The version ids and names of the records of a tool, strings of digits,
\* and the string that str() makes of None
VersionIds == {<< >>, <<"1">>, <<"2">>, <<"1", "0">>}
NoneString == <<"N", "o", "n", "e">>
ord == [c \in {"0", "1", "2", "N", "e", "n", "o"} |->
          CASE c = "0" -> 48 [] c = "1" -> 49 [] c = "2" -> 50 [] c = "N" -> 78
            [] c = "e" -> 101 [] c = "n" -> 110 [] c = "o" -> 111]

\* a < b of two python strings
RECURSIVE StrLess(_, _)
StrLess(a, b) ==
    IF b = << >> THEN FALSE
    ELSE IF a = << >> THEN TRUE
    ELSE IF a[1] = b[1] THEN StrLess(Tail(a), Tail(b))
    ELSE ord[a[1]] < ord[b[1]]

\* The version ids a workflow is created with (None: no version_id), and
\* the "versions" of the answer of tools/{id}
MaxVersions == 2
GivenVersionIds == {None} \cup {Some(v) : v \in VersionIds \ {<< >>}}
ToolVersionRecords == [id : VersionIds, name : VersionIds]
PossibleToolVersions == UNION {[1..n -> ToolVersionRecords] : n \in 0..MaxVersions}

\* WF.__init__: self.version_id = str(version_id)
str(version_id) == IF IsNone(version_id) THEN NoneString ELSE Val(version_id)

\* The loop over the records when self.version_id is not empty: the first
\* record whose id or name is version_id, None when the loop ends
RECURSIVE matchingToolVersion(_, _, _)
matchingToolVersion(version_id, possibleToolVersions, i) ==
    IF i > Len(possibleToolVersions) THEN None
    ELSE IF version_id \in {possibleToolVersions[i].id, possibleToolVersions[i].name}
         THEN Some(possibleToolVersions[i])
         ELSE matchingToolVersion(version_id, possibleToolVersions, i + 1)

\* The loop over the records when self.version_id is None or empty: the
\* record of the greatest id that is not empty
RECURSIVE greatestToolVersion(_, _, _, _)
greatestToolVersion(possibleToolVersions, i, toolVersion, toolVersionId) ==
    IF i > Len(possibleToolVersions) THEN toolVersion
    ELSE IF /\ Len(possibleToolVersions[i].id) > 0
            /\ StrLess(toolVersionId, possibleToolVersions[i].id)
         THEN greatestToolVersion(possibleToolVersions, i + 1,
                  Some(possibleToolVersions[i]), possibleToolVersions[i].id)
         ELSE greatestToolVersion(possibleToolVersions, i + 1, toolVersion, toolVersionId)

\* WF.getWorkflowRepoFromTRS, the selection of the version record:
\* self_version_id is self.version_id, None or a string
selectToolVersion(self_version_id, possibleToolVersions) ==
    IF Len(possibleToolVersions) = 0 THEN [raised |-> TRUE, toolVersion |-> None]
    ELSE IF ~IsNone(self_version_id) /\ Len(Val(self_version_id)) > 0
    THEN [raised |-> IsNone(matchingToolVersion(Val(self_version_id), possibleToolVersions, 1)),
          toolVersion |-> matchingToolVersion(Val(self_version_id), possibleToolVersions, 1)]
    ELSE [raised |-> IsNone(greatestToolVersion(possibleToolVersions, 1, None, << >>)),
          toolVersion |-> greatestToolVersion(possibleToolVersions, 1, None, << >>)]

\* The records of vs that match the version id v, and those with an id
MatchingRecords(v, vs) == {i \in 1..Len(vs) : v \in {vs[i].id, vs[i].name}}
IdentifiedRecords(vs) == {i \in 1..Len(vs) : vs[i].id # << >>}

\* C26: the version record selected through TRS is one matching the
\* version_id given at the creation of the instance; when no version_id was
\* given, the record of the lexicographically greatest version id is
\* selected; when a version_id was given and no record matches it, the
\* resolution fails.
C26_VersionSelection ==
    (mem.live /\ mem.hasConfig) =>
        \A version_id \in GivenVersionIds, vs \in PossibleToolVersions :
          \E r \in {selectToolVersion(Some(str(version_id)), vs)} :
            IF IsNone(version_id)
            THEN IdentifiedRecords(vs) # {} =>
                   /\ ~r.raised
                   /\ \A i \in IdentifiedRecords(vs) :
                        ~StrLess(Val(r.toolVersion).id, vs[i].id)
            ELSE IF MatchingRecords(Val(version_id), vs) # {}
                 THEN ~r.raised /\ Val(version_id) \in
                        {Val(r.toolVersion).id, Val(r.toolVersion).name}
                 ELSE r.raised

\* What the cache handler makes of the URL of the service-info and of the
\* one of the legacy metadata: the fetch fails, or it brings a document
\* without or with a version (api_version, or type.version)
TRSAnswers == {"fails", "noVersion", "version"}

\* WF.getWorkflowRepoFromTRS, the probing of the endpoint: the URLs asked,
\* and whether WFException is raised before tools/{id} is asked
probeTRSEndpoint(serviceInfo, metadata) ==
    IF serviceInfo # "fails"
    THEN [asked |-> <<"service-info">>, raised |-> serviceInfo # "version"]
    ELSE [asked |-> <<"service-info", "metadata">>, raised |-> metadata # "version"]

\* C27: the probing asks service-info first and falls back to the legacy
\* metadata URL; the resolution fails only if neither of the two responds
\* with a version, and proceeds whenever one of them does.
C27_TRSProbing ==
    (mem.live /\ mem.hasConfig) =>
        \A serviceInfo \in TRSAnswers, metadata \in TRSAnswers :
          \E r \in {probeTRSEndpoint(serviceInfo, metadata)} :
            /\ r.asked[1] = "service-info"
            /\ r.raised <=> ("version" \notin {serviceInfo, metadata})

----------------------------------------------------------------------------
(* Identification of the outputs *)

\* The outputs directory after an execution, as os.scandir lists it: a
\* sequence of entries of distinct names, each a file, a directory or
\* neither of them (a broken link, a link to a directory, a socket)
EntryNames == {"e1", "e2"}
EntryTypes == {"file", "dir", "other"}
OutputsDirs ==
    {es \in UNION {[1..n -> [name : EntryNames, type : EntryTypes]] :
                       n \in 0..Cardinality(EntryNames)} :
        \A i, j \in 1..Len(es) : es[i].name = es[j].name => i = j}

\* The declared outputs, of distinct names as the keys of the "outputs" of
\* the stage file are: each bound by a glob or filled from an input, with
\* a cardinality of minimum 0 or 1
OutputNames == {"o1", "o2"}
ContentKinds == {"File", "Directory", "Value"}
ExpectedOutputs ==
    [name : OutputNames, kind : ContentKinds, cardinality : {0, 1},
     fillFrom : {None}, glob : {Some("*")}]
    \cup [name : OutputNames, kind : ContentKinds, cardinality : {0, 1},
          fillFrom : {Some("in")}, glob : {None}]
DeclaredOutputs ==
    {eos \in UNION {[1..n -> ExpectedOutputs] : n \in 0..Cardinality(OutputNames)} :
        \A i, j \in 1..Len(eos) : eos[i].name = eos[j].name => i = j}

\* The values of the materialized inputs, by name: no input "in", or one
\* with the names of one or two paths
MatInputHashes ==
    {<< >>} \cup {[n \in {"in"} |-> vs] : vs \in {<<"e1">>, <<"e2", "e1">>}}

\* GeneratedContent(local=...) and GetGeneratedDirectoryContent(thePath)
GeneratedContent(local) == [local |-> local, kind |-> "File"]
GetGeneratedDirectoryContent(thePath) == [local |-> thePath, kind |-> "Directory"]

\* The discovery of the outputs, no output being declared and the engine
\* giving no mapping: the loop over os.scandir(outputsDir) from entry i on.
\* entry_path is assigned for the files only, and is None while unbound
RECURSIVE discoverOutputs(_, _, _, _, _)
discoverOutputs(entries, i, iEntry, entry_path, matOutputs) ==
    IF i > Len(entries) THEN [raised |-> FALSE, matOutputs |-> matOutputs]
    ELSE IF entries[i].type = "file" THEN
        discoverOutputs(entries, i + 1, iEntry + 1, Some(entries[i].name),
            Append(matOutputs,
                   [name |-> <<"unnamed_output_", iEntry>>, kind |-> "File",
                    values |-> <<GeneratedContent(entries[i].name)>>]))
    ELSE IF entries[i].type = "dir" THEN
        IF IsNone(entry_path)
        THEN [raised |-> TRUE, matOutputs |-> matOutputs]
        ELSE discoverOutputs(entries, i + 1, iEntry + 1, entry_path,
                 Append(matOutputs,
                        [name |-> <<"unnamed_output_", iEntry>>, kind |-> "Directory",
                         values |-> <<GetGeneratedDirectoryContent(Val(entry_path))>>]))
    ELSE discoverOutputs(entries, i + 1, iEntry, entry_path, matOutputs)

\* os.path.isdir or os.path.isfile, after the kind of the expected output
filterMethod(kind, entry) ==
    IF kind = "Directory" THEN entry.type = "dir" ELSE entry.type = "file"

\* The content of a path matched for an expected output of the kind
matchedContent(kind, matchedPath) ==
    IF kind = "Directory" THEN GetGeneratedDirectoryContent(matchedPath)
    ELSE IF kind = "File" THEN GeneratedContent(matchedPath)
    ELSE <<"text of", matchedPath>>

\* glob.iglob(os.path.join(outputsDir, glob)), filtered: the contents of
\* the entries from i on that match the pattern and pass filterMethod
RECURSIVE globbedContents(_, _, _, _)
globbedContents(kind, pattern, entries, i) ==
    IF i > Len(entries) THEN << >>
    ELSE IF pattern \in {"*", entries[i].name} /\ filterMethod(kind, entries[i])
         THEN <<matchedContent(kind, entries[i].name)>>
                  \o globbedContents(kind, pattern, entries, i + 1)
         ELSE globbedContents(kind, pattern, entries, i + 1)

\* The contents of the paths of the input an output is filled from: those
\* that cannot be read as the kind asks are logged and left out
RECURSIVE filledContents(_, _, _, _)
filledContents(kind, matInputValues, entries, i) ==
    IF i > Len(matInputValues) THEN << >>
    ELSE IF \E e \in 1..Len(entries) :
              entries[e].name = matInputValues[i] /\ filterMethod(kind, entries[e])
         THEN <<matchedContent(kind, matInputValues[i])>>
                  \o filledContents(kind, matInputValues, entries, i + 1)
         ELSE filledContents(kind, matInputValues, entries, i + 1)

\* The kind of the materialized output guessed from its values
materializedOutputGuessed(expectedOutput, entries, matInputHash) ==
    [name |-> expectedOutput.name,
     kind |-> "File",
     values |->
        IF ~IsNone(expectedOutput.fillFrom)
        THEN IF Val(expectedOutput.fillFrom) \in DOMAIN matInputHash
             THEN filledContents(expectedOutput.kind,
                                 matInputHash[Val(expectedOutput.fillFrom)], entries, 1)
             ELSE << >>
        ELSE globbedContents(expectedOutput.kind, Val(expectedOutput.glob), entries, 1)]

\* The materialized output of one expected output
materializedOutput(expectedOutput, entries, matInputHash) ==
    [name |-> expectedOutput.name,
     kind |-> expectedOutput.kind,
     values |->
        IF ~IsNone(expectedOutput.fillFrom)
        THEN IF Val(expectedOutput.fillFrom) \in DOMAIN matInputHash
             THEN filledContents(expectedOutput.kind,
                                 matInputHash[Val(expectedOutput.fillFrom)], entries, 1)
             ELSE << >>
        ELSE globbedContents(expectedOutput.kind, Val(expectedOutput.glob), entries, 1)]

\* WorkflowEngine.identifyMaterializedOutputs, the engine giving no
\* mapping of outputs
identifyMaterializedOutputs(matInputHash, expectedOutputs, entries) ==
    IF Len(expectedOutputs) = 0
    THEN discoverOutputs(entries, 1, 0, None, << >>)
    ELSE [raised |-> FALSE,
          matOutputs |-> [i \in 1..Len(expectedOutputs) |->
                            materializedOutput(expectedOutputs[i], entries, matInputHash)]]

\* The instance has executed the workflow and holds its outputs
Executed(m) == m.live /\ ~IsNone(m.matCheckOutputs)

\* C28: with expected outputs declared, bound by glob or filled from
\* string values, the resolution returns one materialized output per
\* expected output, in the order of the declaration and with the same
\* name and kind; an expected output of cardinality minimum 1 or more
\* without matches is emitted with empty values, and the resolution does
\* not fail.
C28_OnePerExpectedOutput ==
    Executed(mem) =>
        \A h \in MatInputHashes, eos \in DeclaredOutputs \ {<< >>}, es \in OutputsDirs :
          \E r \in {identifyMaterializedOutputs(h, eos, es)} :
            /\ ~r.raised
            /\ Len(r.matOutputs) = Len(eos)
            /\ \A i \in 1..Len(eos) :
                 /\ r.matOutputs[i].name = eos[i].name
                 /\ r.matOutputs[i].kind = eos[i].kind
                 /\ (\A e \in 1..Len(es) : ~filterMethod(eos[i].kind, es[e]))
                        => r.matOutputs[i].values = << >>

\* an output that cannot be empty was resolved without a match
C28_Witness ==
    /\ Executed(mem)
    /\ \E h \in MatInputHashes, eos \in DeclaredOutputs, es \in OutputsDirs :
         \E r \in {identifyMaterializedOutputs(h, eos, es)} :
           /\ Len(eos) = Cardinality(OutputNames)
           /\ eos[1].cardinality = 1
           /\ r.matOutputs[1].values = << >>
           /\ r.matOutputs[Len(eos)].values # << >>

\* The entries of the listing that are files or directories
RECURSIVE FilesAndDirectories(_, _)
FilesAndDirectories(entries, i) ==
    IF i > Len(entries) THEN << >>
    ELSE IF entries[i].type \in {"file", "dir"}
         THEN <<entries[i]>> \o FilesAndDirectories(entries, i + 1)
         ELSE FilesAndDirectories(entries, i + 1)

\* C29: without expected outputs and without a mapping from the engine,
\* the resolution yields one discovered output per file or directory
\* directly under the outputs directory, the value of each output
\* describes that same entry, its path and its kind, and the outputs are
\* named unnamed_output_<n> with pairwise distinct n.
C29_DiscoveredOutputs ==
    Executed(mem) =>
        \A es \in OutputsDirs :
          \E r \in {identifyMaterializedOutputs(<< >>, << >>, es)},
             fd \in {FilesAndDirectories(es, 1)} :
            /\ ~r.raised
            /\ Len(r.matOutputs) = Len(fd)
            /\ \A i \in 1..Len(fd) :
                 /\ r.matOutputs[i].values =
                        <<[local |-> fd[i].name,
                           kind |-> IF fd[i].type = "dir" THEN "Directory" ELSE "File"]>>
                 /\ r.matOutputs[i].kind = r.matOutputs[i].values[1].kind
                 /\ r.matOutputs[i].name[1] = "unnamed_output_"
            /\ \A i, j \in 1..Len(r.matOutputs) :
                 r.matOutputs[i].name = r.matOutputs[j].name => i = j

----------------------------------------------------------------------------
(* The items of an export action *)

\* The elements of the "what" of an export action, each a sequence of the
\* pieces of the string: the type, the colon, the name
EncodedNames ==
    { <<"input", ":", "p">>, <<"output", ":", "o">>, <<"working-directory", ":">>,
      <<":", "working-directory", ":">>, <<":", "input", ":">>, <<":", "output", ":">> }
MaxItems == 2
Whats == UNION {[1..n -> EncodedNames] : n \in 1..MaxItems}

\* ExportItemType(rawItemType)
ExportItemType(rawItemType) ==
    CASE rawItemType = <<"input">> -> "Param"
      [] rawItemType = <<"output">> -> "Output"
      [] rawItemType = <<"working-directory">> -> "WorkingDirectory"
      [] OTHER -> "ValueError"

\* WF.parseExportActions, one element of "what": colPos is the place of
\* the first colon, the first place being 1 here.  The element starting
\* with the colon has to end with one and has no name; any other one has
\* its type before the colon and its name after it, which is asserted
\* not to be empty
parseExportItem(encoded_name) ==
    IF find(encoded_name, ":", 1) = 1 THEN
        IF encoded_name[Len(encoded_name)] # ":"
        THEN [raised |-> TRUE, type |-> "none", name |-> None]
        ELSE [raised |-> FALSE,
              type |-> ExportItemType(SubSeq(encoded_name, 2, Len(encoded_name) - 1)),
              name |-> None]
    ELSE IF Len(encoded_name) = find(encoded_name, ":", 1)
    THEN [raised |-> TRUE, type |-> "none", name |-> None]
    ELSE [raised |-> FALSE,
          type |-> ExportItemType(SubSeq(encoded_name, 1, find(encoded_name, ":", 1) - 1)),
          name |-> Some(SubSeq(encoded_name, find(encoded_name, ":", 1) + 1,
                               Len(encoded_name)))]

\* WF.parseExportActions, the "what" of one action
parseExportActions(what) ==
    [raised |-> \E i \in 1..Len(what) : parseExportItem(what[i]).raised,
     whatToExport |-> [i \in 1..Len(what) |-> parseExportItem(what[i])]]

\* The contents located for an item with a name, and the directory given
\* for an item without one or for the working directory
NamedContents(item) == <<[local |-> <<item.type, Val(item.name)>>, kind |-> "File"]>>
DirectoryContent(local, prettyFilename) ==
    [local |-> local, kind |-> "Directory", prettyFilename |-> prettyFilename]

\* WF.locateExportItems on the instance m, from the item i on:
\* prettyFilename is None while the variable is unbound
RECURSIVE locateExportItemsFrom(_, _, _, _, _)
locateExportItemsFrom(m, items, i, prettyFilename, retval) ==
    IF i > Len(items) THEN [raised |-> FALSE, retval |-> retval]
    ELSE IF items[i].type = "Param" THEN
        IF ~IsTimestamp(m.stageMarshalled) \/ IsNone(m.materializedParams)
        THEN [raised |-> TRUE, retval |-> retval]
        ELSE IF ~IsNone(items[i].name)
        THEN locateExportItemsFrom(m, items, i + 1, prettyFilename,
                 retval \o NamedContents(items[i]))
        ELSE locateExportItemsFrom(m, items, i + 1, Some("inputs"),
                 Append(retval, DirectoryContent("inputs_dir", "inputs")))
    ELSE IF items[i].type = "Output" THEN
        IF ~IsTimestamp(m.executionMarshalled) \/ IsNone(m.matCheckOutputs)
        THEN [raised |-> TRUE, retval |-> retval]
        ELSE IF ~IsNone(items[i].name)
        THEN locateExportItemsFrom(m, items, i + 1, prettyFilename,
                 retval \o NamedContents(items[i]))
        ELSE locateExportItemsFrom(m, items, i + 1, Some("outputs"),
                 Append(retval, DirectoryContent("outputs_dir", "outputs")))
    ELSE IF items[i].type = "WorkingDirectory" THEN
        IF IsNone(prettyFilename)
        THEN [raised |-> TRUE, retval |-> retval]
        ELSE locateExportItemsFrom(m, items, i + 1, prettyFilename,
                 Append(retval, DirectoryContent("work_dir", Val(prettyFilename))))
    ELSE [raised |-> TRUE, retval |-> retval]

\* The elements of "what" as an export action spec writes them
SpecifiedNames ==
    { <<"input", ":", "p">>, <<"output", ":", "o">>, <<"working-directory", ":">> }

\* The instance holds what an export needs: the inputs and the outputs
MayExport(m) ==
    /\ m.live
    /\ IsTimestamp(m.stageMarshalled) /\ ~IsNone(m.materializedParams)
    /\ IsTimestamp(m.executionMarshalled) /\ ~IsNone(m.matCheckOutputs)

\* C30: every item of an action is resolved before the push: input:<name>
\* to the contents of the parameter of that key, output:<name> to the
\* contents of the output of that name, and working-directory: is
\* accepted and resolves to the whole working directory as one Directory
\* content, whichever the other items of the action and their order.
C30_ExportItemsResolved ==
    MayExport(mem) =>
        \A what \in Whats :
          (\A i \in 1..Len(what) : what[i] \in SpecifiedNames) =>
            \E a \in {parseExportActions(what)} :
              /\ ~a.raised
              /\ \E r \in {locateExportItemsFrom(mem, a.whatToExport, 1, None, << >>)} :
                   /\ ~r.raised
                   /\ Len(r.retval) = Len(what)
                   /\ \A i \in 1..Len(what) :
                        CASE what[i][1] = "input" ->
                               r.retval[i].local = <<"Param", <<"p">> >>
                          [] what[i][1] = "output" ->
                               r.retval[i].local = <<"Output", <<"o">> >>
                          [] OTHER ->
                               /\ r.retval[i].local = "work_dir"
                               /\ r.retval[i].kind = "Directory"

----------------------------------------------------------------------------
(* Completeness of the stage record *)

\* C31: stage-state.yaml is written only when the staging is complete:
\* the workflow fetched, the engine and the containers materialized and the
\* inputs materialized; no sequence of public calls produces a stage record
\* that lacks the materialized inputs.
C31_StageRecordComplete ==
    Exists(disk.stage) =>
        /\ ~IsNone(disk.stage.data.repoURL)
        /\ ~IsNone(disk.stage.data.materializedEngine)
        /\ ~IsNone(disk.stage.data.materializedParams)

----------------------------------------------------------------------------
(* What an export leaves alone *)

\* C32: exportResults changes no marshalled record other than
\* export-state.yaml: whatever the call, the contents and the timestamps of
\* workflow_meta.yaml, stage-state.yaml and execution-state.yaml, and the
\* config, stage and execution timestamps that getMarshallingStatus
\* reports, are after the call what they were before it.
C32_ExportFrame ==
    mem.live =>
        \A actions \in ExportRequests, failing \in ExportFailures,
           fail_ok \in BOOLEAN, ok \in BOOLEAN :
          \E r \in {exportResults(World, actions, failing, fail_ok, ok)} :
            r.halt # "bound" =>
              /\ r.disk.config = disk.config
              /\ r.disk.stage = disk.stage
              /\ r.disk.execute = disk.execute
              /\ \A f \in {"configMarshalled", "stageMarshalled", "executionMarshalled"} :
                   IsTimestamp(mem[f]) => r.mem[f] = mem[f]

----------------------------------------------------------------------------
(* Replay of the stage record *)

\* WF.fetchWorkflow, what it does to the copy of the workflow kept in the
\* working directory: shutil.rmtree(self.workflowDir), then
\* link_or_copy(repoDir, self.workflowDir, force_copy=True)
fetchWorkflowWrites == << "rmtree workflowDir", "copy to workflowDir" >>

\* WF.setupEngine on the instance m: what is written in the working
\* directory
setupEngineWrites(m) == IF IsNone(m.engine) THEN fetchWorkflowWrites ELSE << >>

\* WF.unmarshallStage on the instance m, the record of the disk d being
\* loaded: the retrievals and the writes of its setupEngine(offline=True)
unmarshallStageRetrievals(m, d, id) ==
    IF ~StIsNone(m.stageMarshalled) \/ d.config.kind # "ok" \/ d.stage.kind # "ok"
    THEN << >>
    ELSE setupEngineRetrievals(m, id, TRUE)
unmarshallStageWrites(m, d) ==
    IF ~StIsNone(m.stageMarshalled) \/ d.config.kind # "ok" \/ d.stage.kind # "ok"
    THEN << >>
    ELSE setupEngineWrites(m)

\* The instance was opened on a staged directory and did not load the
\* stage record yet
ReOpenedStaged(m, d) ==
    /\ m.live /\ m.metaDir
    /\ StIsNone(m.stageMarshalled)
    /\ d.config.kind = "ok" /\ d.stage.kind = "ok"

\* C33: unmarshalling the stage of a re-opened staged instance replays the
\* record without redoing the staging: the workflow is neither resolved nor
\* fetched again, and the workflow directory, the containers and the inputs
\* of the instance are left as they are on disk.
C33_ReplayWithoutStaging ==
    ReOpenedStaged(mem, disk) =>
        \A id \in WorkflowIds :
            /\ \A i \in DOMAIN unmarshallStageRetrievals(mem, disk, id) :
                 unmarshallStageRetrievals(mem, disk, id)[i].what = "engine"
            /\ unmarshallStageWrites(mem, disk) = << >>

----------------------------------------------------------------------------
(* Status queries *)

\* The instance is configured and not staged yet
NotStagedYet(m, d) ==
    /\ m.live /\ m.hasConfig
    /\ StIsNone(m.stageMarshalled)
    /\ ~Exists(d.stage)

\* The staging that ended in r wrote the stage record and reports its time
Staged(r) ==
    /\ r.halt = "no"
    /\ r.disk.stage.kind = "ok"
    /\ IsTimestamp(r.mem.stageMarshalled)

\* C34: a getMarshallingStatus(reread_stats=True) on a configured instance
\* that is not staged yet does not change what a later successful
\* stageWorkDir does: stage-state.yaml is written and the stage status
\* becomes a timestamp, as when the query had not been made.
C34_QueryThenStage ==
    NotStagedYet(mem, disk) =>
        \A ok \in BOOLEAN :
          \E q \in {getMarshallingStatus(World, TRUE, ok)} :
            (q.halt = "no" /\ Staged(stageWorkDir(World, TRUE)))
                => Staged(stageWorkDir(q, TRUE))

----------------------------------------------------------------------------
(* Termination of the liveness thread *)

\* The liveness thread of each instance goes on whenever it can (it is a
\* thread of its own and its waits are timed), and an unmountWorkdir that
\* has signalled goes on to its unmount command
SpecWorkdirLive ==
    /\ SpecWorkdir
    /\ \A i \in Instances :
         /\ WF_vars(ThreadAcquire(i))
         /\ WF_vars(ThreadWait(i))
         /\ WF_vars(ThreadTimeout(i))
         /\ WF_vars(ThreadReacquire(i))
         /\ WF_vars(ThreadCheck(i))
         /\ WF_vars(Fusermount(i))

\* C35: after unmountWorkdir was called on an instance whose liveness
\* thread is running, the thread eventually terminates: it is not left
\* blocked forever on the condition or on its lock.
C35_ThreadTerminates ==
    \A i \in Instances :
        (wd.inst[i].pc = "unmount" /\ wd.inst[i].thread \notin {"none", "exited"})
            ~> (wd.inst[i].thread = "exited")

----------------------------------------------------------------------------
(* Distinct local paths of the inputs *)

\* C36: after the staging of any inputs, the materialized contents that
\* stem from distinct remote URIs have pairwise distinct local paths, the
\* file at each local path is the content fetched for the URI of its own
\* record, and the sequence number of the hardening prefix is not used for
\* two different inputs.
C36_DistinctLocalPaths ==
    MayFetchInputs(mem) =>
        \A ins \in StagingInputs, symlink \in BOOLEAN :
          \E r \in {linkInputs(EmptyDir, << >>, ins, 0, symlink)} :
            /\ \A i, j \in 1..Len(ins) :
                 ins[i].url # ins[j].url => r.values[i].local # r.values[j].local
            /\ \A i \in 1..Len(ins) :
                 r.dir[r.values[i].local].content = ins[i].url
            /\ \A i, j \in 1..Len(ins) :
                 NumericPrefix(i) = NumericPrefix(j) => i = j

----------------------------------------------------------------------------
(* Record of the pushed exports *)

\* The actions of the sequence held by the optional value v
Listed(v) == IF IsNone(v) THEN {} ELSE {Val(v)[k] : k \in DOMAIN Val(v)}

\* C37: every export action whose push completed during an exportResults
\* is recorded in export-state.yaml and in the list of the materialized
\* export actions, also when another action of the call failed, fail_ok
\* being true or false.
C37_PushedIsRecorded ==
    mem.live =>
        \A actions \in ItemExportRequests, failing \in ExportFailures,
           fail_ok \in BOOLEAN, ok \in BOOLEAN :
          \E r \in {exportResults(World, actions, failing, fail_ok, ok)} :
            r.halt \in {"no", "raised"} =>
              \A k \in DOMAIN r.mat :
                /\ r.disk.export.kind = "ok"
                /\ r.mat[k] \in Listed(r.disk.export.data)
                /\ r.mat[k] \in Listed(r.mem.runExportActions)

----------------------------------------------------------------------------
(* Multipart direct upload to Dataverse *)

\* The labels of the parts in the "urls" of the upload description, and what
\* the storage makes of the PUT of a part: it answers with an ETag, without
\* one, or the request fails.  The completion request, sent in the try
\* block or in its handler, succeeds or fails
MaxParts == 3
PartLabels == 1..MaxParts
PartAnswers == {"ETag", "no ETag", "fails"}
RequestAnswers == {"ok", "fails"}
UploadDescriptions ==
    UNION {[labels -> PartAnswers] : labels \in (SUBSET PartLabels) \ {{}}}

\* list(sorted(upload_urls_mapping.items(), key=lambda p: int(p[0])))
RECURSIVE upload_urls(_)
upload_urls(labels) ==
    IF labels = {} THEN << >>
    ELSE <<CHOOSE l \in labels : \A m \in labels : l <= m>>
         \o upload_urls(labels \ {CHOOSE l \in labels : \A m \in labels : l <= m})

\* The requests: the PUT of a part to its URL, the PUT to the completion
\* URL, the DELETE to the abort URL
PartRequest(label) == [method |-> "PUT", url |-> "part", part |-> label]
CompletionRequest == [method |-> "PUT", url |-> "complete", part |-> 0]
AbortRequest == [method |-> "DELETE", url |-> "abort", part |-> 0]

\* The except branch of the upload: the abort request dreq is built, and
\* urllib.request.urlopen(creq) is called; creq is unbound when a part
\* failed.  e is the exception of the try block
abortUpload(sent, creqBound, e, again) ==
    IF ~creqBound THEN [sent |-> sent, raised |-> "UnboundLocalError"]
    ELSE IF again = "fails"
    THEN [sent |-> Append(sent, CompletionRequest), raised |-> "URLError"]
    ELSE [sent |-> Append(sent, CompletionRequest), raised |-> e]

\* The try block from the part i of the sorted parts on, then the
\* completion request.  sent: the requests sent so far
RECURSIVE uploadParts(_, _, _, _, _, _)
uploadParts(parts, i, answers, complete, again, sent) ==
    IF i > Len(parts) THEN
        IF complete = "fails"
        THEN abortUpload(Append(sent, CompletionRequest), TRUE, "URLError", again)
        ELSE [sent |-> Append(sent, CompletionRequest), raised |-> "none"]
    ELSE IF answers[parts[i]] = "fails"
    THEN abortUpload(Append(sent, PartRequest(parts[i])), FALSE, "URLError", again)
    ELSE IF answers[parts[i]] = "no ETag"
    THEN abortUpload(Append(sent, PartRequest(parts[i])), FALSE,
                     "ExportPluginException", again)
    ELSE uploadParts(parts, i + 1, answers, complete, again,
                     Append(sent, PartRequest(parts[i])))

\* DataversePublisher._direct_upload_file_to_draft, the multipart upload
direct_upload_file_to_draft(answers, complete, again) ==
    uploadParts(upload_urls(DOMAIN answers), 1, answers, complete, again, << >>)

\* The places of the request q in the sequence of the requests sent
Places(sent, q) == {k \in DOMAIN sent : sent[k] = q}

\* C38: in a multipart direct upload the parts are sent in ascending order
\* and the completion request only after every part was uploaded and
\* returned an ETag; when a part or the completion fails, the abort request
\* is sent to the abort URL and the failure is reported as an export plugin
\* error.
C38_MultipartUpload ==
    (mem.live /\ IsTimestamp(mem.stageMarshalled)) =>
        \A answers \in UploadDescriptions, complete \in RequestAnswers,
           again \in RequestAnswers :
          \E r \in {direct_upload_file_to_draft(answers, complete, again)} :
            /\ \A j, k \in DOMAIN r.sent :
                 (j < k /\ r.sent[j].url = "part" /\ r.sent[k].url = "part")
                    => r.sent[j].part < r.sent[k].part
            /\ Places(r.sent, CompletionRequest) # {} =>
                 \A l \in DOMAIN answers : answers[l] = "ETag"
            /\ ((\E l \in DOMAIN answers : answers[l] # "ETag") \/ complete = "fails") =>
                 /\ Places(r.sent, AbortRequest) # {}
                 /\ r.raised = "ExportPluginException"

----------------------------------------------------------------------------
(* Formal parameters of the stage RO-Crate *)

\* The first value of a materialized input, by its python type; a
\* MaterializedContent is of the kind File or Directory
ValueTypes == {"int", "str", "bool", "float", "File", "Directory"}
ParamNames == {"p", "q"}
MaterializedInputs ==
    {ins \in UNION {[1..n -> [name : ParamNames, value0 : ValueTypes]] :
                        n \in 1..Cardinality(ParamNames)} :
        \A i, j \in 1..Len(ins) : ins[i].name = ins[j].name => i = j}

\* isinstance(value, class): bool is a subclass of int
isinstance(valueType, class) ==
    \/ valueType = class
    \/ valueType = "bool" /\ class = "int"
    \/ valueType \in {"File", "Directory"} /\ class = "MaterializedContent"

\* addInputsResearchObject: additional_type, from in_item.values[0]
additional_type(itemInValue0) ==
    IF isinstance(itemInValue0, "int") THEN "Integer"
    ELSE IF isinstance(itemInValue0, "str") THEN "String"
    ELSE IF isinstance(itemInValue0, "bool") THEN "Boolean"
    ELSE IF isinstance(itemInValue0, "float") THEN "Float"
    ELSE IF isinstance(itemInValue0, "MaterializedContent") THEN
        IF itemInValue0 = "File" THEN "File"
        ELSE IF itemInValue0 = "Directory" THEN "Dataset"
        ELSE "None"
    ELSE "None"

\* addInputsResearchObject: the formal parameters added to the crate
addInputsResearchObject(inputs) ==
    [i \in DOMAIN inputs |->
        [name |-> inputs[i].name,
         additional_type |-> additional_type(inputs[i].value0)]]

\* The additionalType that corresponds to the type of a value
TypeOfValue(valueType) ==
    CASE valueType = "int" -> "Integer"
      [] valueType = "str" -> "String"
      [] valueType = "bool" -> "Boolean"
      [] valueType = "float" -> "Float"
      [] valueType = "File" -> "File"
      [] valueType = "Directory" -> "Dataset"

\* C39: in the stage RO-Crate each materialized input yields one formal
\* parameter whose additionalType corresponds to the type of its value:
\* File, Dataset, Integer, Float, Boolean or String.
C39_FormalParameterTypes ==
    (mem.live /\ ~IsNone(mem.materializedParams)) =>
        \A inputs \in MaterializedInputs :
          \E fp \in {addInputsResearchObject(inputs)} :
            /\ Len(fp) = Len(inputs)
            /\ \A i \in DOMAIN inputs :
                 /\ fp[i].name = inputs[i].name
                 /\ fp[i].additional_type = TypeOfValue(inputs[i].value0)
====
